---------------------------- MODULE Spec2Model ----------------------------
(***************************************************************************)
(* Verification model of the screener backend (krisnaepras/                *)
(* backend-screener-crypto): the auto-scalp position engine                *)
(* (internal/usecase/notification.go, AutoScalpingService), its in-memory  *)
(* store (internal/repository/auto_scalp_repository.go), the published     *)
(* snapshot store (InMemoryScreenerRepository) and the concurrent scan     *)
(* cycle (internal/usecase/screener.go, ScreenerUsecase.Run / process).    *)
(*                                                                         *)
(* Numeric conventions (the Go code uses float64; the model uses exact     *)
(* integers):                                                              *)
(*   prices           hundredths of a quote unit (10000 = 100.00)          *)
(*   percent settings basis points (40 = 0.4 %)                            *)
(*   StopLoss         price * PctScale (so that entry*(1+pct/100) is exact)*)
(*   scores           1/ScoreScale points (2000 = 100 points)              *)
(*   OverExtEma       1e-4 (300 = 0.03), FundingRate 1e-5 (30 = 0.0003)    *)
(*   RejectionWick    hundredths (50 = 0.5), RSI / PctChange24h integers   *)
(*   time             seconds                                              *)
(* A nil pointer is the empty sequence <<>>, a set pointer is <<v>>.       *)
(*                                                                         *)
(* Specifications, all over the same variables:                            *)
(*   Spec      the auto-scalp engine: monitor ticks, settings updates,     *)
(*             snapshot publications and the clock; one tick is one step   *)
(*   SpecScan  overlapping scan cycles and a reader of the snapshot, with  *)
(*             kline fetches that fail or come back short                  *)
(*   SpecRank  the same cycles with klines of different scores             *)
(*   SpecSem   the same cycles over a universe larger than half the        *)
(*             semaphore capacity                                          *)
(*   SpecPool  one cycle over more symbols than permits, under fairness    *)
(*   SpecScore the scoring functions over a grid of features               *)
(*   SpecNotify  the cycles with notification delivery switched on         *)
(*   SpecTrade, SpecLife  order placement and attachment with the engine   *)
(*   SpecLocks, SpecCalls  the goroutines' accesses, locks and calls       *)
(*   SpecInd   the indicator functions over short series                   *)
(*   SpecFloat openPosition and shouldExit in rounded floating point       *)
(* The intraday (15m, 1h) fields of a CoinData are not followed: nothing   *)
(* modelled here reads them.                                               *)
(***************************************************************************)
EXTENDS Integers, Sequences, FiniteSets, TLC

VARIABLES
    coins,        \* InMemoryScreenerRepository.coins: the published snapshot
    settings,     \* AutoScalpingService.settings
    priceCache,   \* AutoScalpingService.priceCache: symbol -> price
    entries,      \* InMemoryAutoScalpRepository.entries: id -> ACTIVE entry
    history,      \* InMemoryAutoScalpRepository.history: CLOSED entries
    nextId,       \* the next value of time.Now().UnixNano() used as an entry ID
    now,          \* the wall clock read by time.Now()
    ticked,       \* TRUE right after a return of MonitorAndExecute
    market,       \* what the exchange gateway answers: symbols, tickers, klines
    cycles,       \* the process() goroutines started by Run, by cycle number
    published,    \* the lists handed to SaveCoins so far
    lastRead,     \* the result of the latest GetCoins call of a reader
    notifiedCoins, \* ScreenerUsecase.notifiedCoins: symbol -> time of last notification
    sent,         \* the SendMulticast calls that succeeded: symbol, time, cycle
    orders,       \* the order requests of the latest PlaceShortWithStopLoss call
    result,       \* what that call returned, and whether it logged CRITICAL
    threads,      \* per goroutine: the shared-state access it is at, and whether inside it
    calc          \* a candle series, a period, and the indicator outputs computed from them

vars ==
    <<coins, settings, priceCache, entries, history, nextId, now, ticked,
      market, cycles, published, lastRead, notifiedCoins, sent, orders, result,
      threads, calc>>

scalpVars ==
    <<settings, priceCache, entries, history, nextId, now, ticked>>

scanVars ==
    <<market, cycles, published, lastRead>>

notifyVars ==
    <<notifiedCoins, sent>>

tradeVars ==
    <<orders, result>>

lockVars ==
    <<threads>>

indVars ==
    <<calc>>

---------------------------------------------------------------------------
(* Bounds of the model *)

\* Entry IDs handed out in one behaviour.
MaxOpened ==
    2

\* The clock stops advancing after this many seconds.
MaxNow ==
    1800

\* Seconds by which one step of the clock advances.
ClockStep ==
    1800

\* process() goroutines started by Run in one behaviour.
MaxCycles ==
    2

---------------------------------------------------------------------------
(* Program constants *)

PctScale ==
    10000

ScoreScale ==
    20

Symbols ==
    {"AAAUSDT", "BBBUSDT"}

PriceSet ==
    {9950, 9975, 10000, 10050}

ExitReasons ==
    {"SL_HIT", "MAX_TIME", "TRAILING_STOP", "EMERGENCY_EXIT", "MANUAL"}

Nil ==
    <<>>

Ptr(v) ==
    <<v>>

IsNil(p) ==
    p = <<>>

Deref(p) ==
    p[1]

---------------------------------------------------------------------------
(* domain.AutoScalpSettings and the features read by the entry gate *)

DefaultSettings ==
    [Enabled             |-> FALSE,
     MaxConcurrentTrades |-> 3,
     MinEntryScore       |-> 75 * ScoreScale,
     StopLossPercent     |-> 40,
     MinProfitPercent    |-> 30,
     TrailingStopPercent |-> 15,
     MaxPositionTime     |-> 1800]

\* The request bodies POST /api/autoscalp/settings is driven with.
SettingsInputs ==
    {DefaultSettings,
     [DefaultSettings EXCEPT !.Enabled = TRUE],
     [DefaultSettings EXCEPT !.Enabled = TRUE, !.MaxConcurrentTrades = 1,
                             !.MinProfitPercent = 25]}

NoFeatures ==
    [PctChange24h        |-> 0,
     OverExtEma          |-> 0,
     OverExtVwap         |-> 0,
     IsAboveUpperBand    |-> FALSE,
     RSI                 |-> 50,
     RejectionWickRatio  |-> 0,
     FundingRate         |-> 0,
     OpenInterestDelta   |-> 0,
     IsBreakdown         |-> FALSE,
     IsRetest            |-> FALSE,
     HasRsiDivergence    |-> FALSE,
     HasVolumeDivergence |-> FALSE,
     RsiSlope            |-> 0,
     IsLosingMomentum    |-> FALSE]

\* RSI 82, 9 % above EMA50, wick 0.6, above the upper band.
FStrong ==
    [NoFeatures EXCEPT !.RSI = 82, !.OverExtEma = 900,
                       !.RejectionWickRatio = 60, !.IsAboveUpperBand = TRUE]

\* Every gate value exactly on its threshold.
FBoundary ==
    [NoFeatures EXCEPT !.RSI = 75, !.OverExtEma = 300, !.RejectionWickRatio = 50,
                       !.FundingRate = 30, !.PctChange24h = 15]

\* Every confirmation present, RSI one below the gate.
FLowRsi ==
    [NoFeatures EXCEPT !.RSI = 74, !.OverExtEma = 900, !.RejectionWickRatio = 60,
                       !.IsAboveUpperBand = TRUE, !.IsBreakdown = TRUE,
                       !.FundingRate = 40, !.PctChange24h = 20]

\* Overbought with a single confirmation.
FOneSign ==
    [NoFeatures EXCEPT !.RSI = 80, !.RejectionWickRatio = 51]

---------------------------------------------------------------------------
(* Enumerations *)

\* The orders in which a map or a slice of the elements of S can be ranged over.
Orders(S) ==
    {o \in [1..Cardinality(S) -> S] : \A i, j \in DOMAIN o : i # j => o[i] # o[j]}

---------------------------------------------------------------------------
(* scoring.go: CalculateScore, in points *)

Min(a, b) ==
    IF a < b THEN a ELSE b

\* Mutant of sOver: the overextension points without their cap.
sOver_Uncapped(f) ==
    (IF f.PctChange24h >= 50 THEN 20
     ELSE IF f.PctChange24h >= 40 THEN 15
     ELSE IF f.PctChange24h >= 25 THEN 10
     ELSE IF f.PctChange24h >= 15 THEN 5 ELSE 0)
    + (IF f.OverExtEma >= 800 THEN 15
       ELSE IF f.OverExtEma >= 500 THEN 10
       ELSE IF f.OverExtEma >= 300 THEN 5 ELSE 0)
    + (IF f.OverExtVwap >= 500 THEN 5
       ELSE IF f.OverExtVwap >= 300 THEN 3 ELSE 0)

\* Overextension: the 24 h change, the distance from EMA50 and from VWAP.
sOver(f) ==
    Min((IF f.PctChange24h >= 50 THEN 20
         ELSE IF f.PctChange24h >= 40 THEN 15
         ELSE IF f.PctChange24h >= 25 THEN 10
         ELSE IF f.PctChange24h >= 15 THEN 5 ELSE 0)
        + (IF f.OverExtEma >= 800 THEN 15
           ELSE IF f.OverExtEma >= 500 THEN 10
           ELSE IF f.OverExtEma >= 300 THEN 5 ELSE 0)
        + (IF f.OverExtVwap >= 500 THEN 5
           ELSE IF f.OverExtVwap >= 300 THEN 3 ELSE 0),
        30)

\* Crowding: the funding rate and the open-interest delta.
sCrowd(f) ==
    Min((IF f.FundingRate > 100 THEN 10
         ELSE IF f.FundingRate > 50 THEN 7
         ELSE IF f.FundingRate > 10 THEN 3 ELSE 0)
        + (IF f.OpenInterestDelta > 10 THEN 7
           ELSE IF f.OpenInterestDelta > 5 THEN 3 ELSE 0),
        20)

\* Exhaustion: RSI, the upper band and the rejection wick.
sExhaust(f) ==
    Min((IF f.RSI > 80 THEN 20
         ELSE IF f.RSI > 75 THEN 15
         ELSE IF f.RSI > 70 THEN 10
         ELSE IF f.RSI > 65 THEN 5 ELSE 0)
        + (IF f.IsAboveUpperBand THEN 5 ELSE 0)
        + (IF f.RejectionWickRatio > 50 THEN 5 ELSE 0),
        30)

\* Structure: breakdown and retest.
sStruct(f) ==
    Min((IF f.IsBreakdown THEN 12 ELSE 0) + (IF f.IsRetest THEN 8 ELSE 0), 20)

\* Momentum loss: the three signals and the slope of RSI.
sMomentum(f) ==
    Min((IF f.IsLosingMomentum THEN 8 ELSE 0)
        + (IF f.HasRsiDivergence THEN 5 ELSE 0)
        + (IF f.HasVolumeDivergence THEN 3 ELSE 0)
        + (IF f.RsiSlope < -3 THEN 4 ELSE IF f.RsiSlope < -1 THEN 2 ELSE 0),
        15)

CalculateScore(f) ==
    sOver(f) + sCrowd(f) + sExhaust(f) + sStruct(f) + sMomentum(f)

---------------------------------------------------------------------------
(* screener.go: the per-symbol unit of process() *)

\* The fields of domain.CoinData the model follows.
MkCoin(symbol, price, score, count, status, f) ==
    [Symbol          |-> symbol,
     Price           |-> price,
     Score           |-> score,
     Status          |-> status,
     ConfluenceCount |-> count,
     Features        |-> Ptr(f)]

\* Permits of the semaphore a process() call creates.
SemCapacity ==
    10

\* Klines a timeframe needs to be analysed.
MinKlines ==
    50

CoreTimeframes ==
    <<"1m", "5m">>

\* An answer of GetKlines: an error, or n klines whose features are f and
\* whose last close is close.
KlineAnswer(err, n, f, close) ==
    [err |-> err, n |-> n, f |-> f, close |-> close]

\* The core timeframes of tfScores: those fetched without error with at least
\* MinKlines klines (ExtractFeatures is nil only for an empty series).
AnalysedTFs(answers) ==
    {i \in DOMAIN CoreTimeframes : ~answers[i].err /\ answers[i].n >= MinKlines}

IsAligned(f) ==
    \/ f.RSI > 60 \/ f.OverExtEma > 200 \/ f.IsAboveUpperBand
    \/ f.IsLosingMomentum \/ f.HasRsiDivergence \/ f.HasVolumeDivergence

\* Mutant of ConfluenceMultiplier: no bonus for aligned timeframes.
ConfluenceMultiplier_Flat(count) ==
    10

\* confluenceMultiplier, in tenths.
ConfluenceMultiplier(count) ==
    IF count = 2 THEN 13 ELSE IF count = 1 THEN 11 ELSE 10

\* finalScore in 1/ScoreScale points: (total / n) * multiplier, capped at 100.
FinalScore(total, n, count) ==
    Min((total * ScoreScale * ConfluenceMultiplier(count)) \div (10 * n),
        100 * ScoreScale)

\* Mutant of StatusOf: the confluence count is ignored.
StatusOf_ScoreOnly(count, finalScore) ==
    IF finalScore >= 40 * ScoreScale THEN "TRIGGER"
    ELSE IF finalScore >= 35 * ScoreScale THEN "SETUP"
    ELSE IF finalScore >= 30 * ScoreScale THEN "WATCH"
    ELSE ""

StatusOf(count, finalScore) ==
    IF count >= 2 /\ finalScore >= 40 * ScoreScale THEN "TRIGGER"
    ELSE IF count >= 1 /\ finalScore >= 35 * ScoreScale THEN "SETUP"
    ELSE IF finalScore >= 30 * ScoreScale THEN "WATCH"
    ELSE ""

\* The index of the primary timeframe: the first one with the highest score.
PrimaryTF(answers, tfs) ==
    CHOOSE i \in tfs :
        \A j \in tfs :
            \/ CalculateScore(answers[j].f) < CalculateScore(answers[i].f)
            \/ CalculateScore(answers[j].f) = CalculateScore(answers[i].f) /\ i <= j

RECURSIVE SumScores(_, _)
SumScores(answers, tfs) ==
    IF tfs = {} THEN 0
    ELSE LET i == CHOOSE k \in tfs : TRUE
         IN  CalculateScore(answers[i].f) + SumScores(answers, tfs \ {i})

\* Mutant of AnalyseSymbol: one analysed core timeframe is enough.
AnalyseSymbol_OneTF(symbol, answers) ==
    LET tfs == AnalysedTFs(answers)
    IN  IF Cardinality(tfs) < 1 THEN Nil
        ELSE LET count   == Cardinality({i \in tfs : IsAligned(answers[i].f)})
                 final   == FinalScore(SumScores(answers, tfs), Cardinality(tfs), count)
                 primary == PrimaryTF(answers, tfs)
             IN  Ptr(MkCoin(symbol, answers[primary].close, final, count,
                            StatusOf(count, final), answers[primary].f))

\* The body of the per-symbol goroutine between acquiring and releasing the
\* permit: Nil when the symbol is dropped, else the CoinData it appends.
AnalyseSymbol(symbol, answers) ==
    LET tfs == AnalysedTFs(answers)
    IN  IF Cardinality(tfs) < 2 THEN Nil
        ELSE LET count   == Cardinality({i \in tfs : IsAligned(answers[i].f)})
                 final   == FinalScore(SumScores(answers, tfs), Cardinality(tfs), count)
                 primary == PrimaryTF(answers, tfs)
             IN  Ptr(MkCoin(symbol, answers[primary].close, final, count,
                            StatusOf(count, final), answers[primary].f))

\* Mutant of Less: ascending.
Less_Ascending(a, b) ==
    a.Score < b.Score

\* The less function handed to sort.Slice.
Less(a, b) ==
    a.Score > b.Score

\* sort.Slice: some permutation in which no element is less than one before it.
SortSlice(cs) ==
    {[i \in DOMAIN cs |-> cs[o[i]]] : o \in
        {o \in Orders(DOMAIN cs) :
            \A i, j \in DOMAIN cs : i < j => ~Less(cs[o[j]], cs[o[i]])}}

---------------------------------------------------------------------------
(* InMemoryAutoScalpRepository *)

NoEntries ==
    [id \in {} |-> Nil]

ActiveIds(ents) ==
    DOMAIN ents

GetActiveEntries(ents) ==
    {ents[id] : id \in DOMAIN ents}

\* CreateEntry: refuses an ID that is already stored.
CreateEntry(ents, entry) ==
    IF entry.ID \in DOMAIN ents
    THEN ents
    ELSE [id \in DOMAIN ents \cup {entry.ID} |->
            IF id = entry.ID THEN entry ELSE ents[id]]

\* Mutant of UpdateEntry: a CLOSED entry is appended to the history and stays
\* in the map.
UpdateEntry_KeepClosed(ents, hist, entry) ==
    IF entry.ID \notin DOMAIN ents
    THEN [entries |-> ents, history |-> hist]
    ELSE [entries |-> [ents EXCEPT ![entry.ID] = entry],
          history |-> IF entry.Status = "CLOSED" THEN Append(hist, entry) ELSE hist]

\* UpdateEntry: a CLOSED entry moves to the history, any other is stored back.
UpdateEntry(ents, hist, entry) ==
    IF entry.ID \notin DOMAIN ents
    THEN [entries |-> ents, history |-> hist]
    ELSE IF entry.Status = "CLOSED"
    THEN [entries |-> [id \in DOMAIN ents \ {entry.ID} |-> ents[id]],
          history |-> Append(hist, entry)]
    ELSE [entries |-> [ents EXCEPT ![entry.ID] = entry],
          history |-> hist]

---------------------------------------------------------------------------
(* AutoScalpingService *)

\* updatePriceCache: every coin of the snapshot overwrites its symbol's price;
\* nothing is ever removed.
RECURSIVE UpdatePriceCache(_, _)
UpdatePriceCache(cache, cs) ==
    IF cs = <<>>
    THEN cache
    ELSE LET c == Head(cs)
         IN  UpdatePriceCache(
                 [s \in DOMAIN cache \cup {c.Symbol} |->
                     IF s = c.Symbol THEN c.Price ELSE cache[s]],
                 Tail(cs))

StopLossBreached(entry, currentPrice) ==
    currentPrice * PctScale >= entry.StopLoss

MaxHoldReached(entry, t, s) ==
    t - entry.EntryTime >= s.MaxPositionTime

\* profitPct >= MinProfitPercent
ProfitAtLeast(entry, price, pct) ==
    (entry.EntryPrice - price) * PctScale >= pct * entry.EntryPrice

\* peakProfitPct - profitPct >= TrailingStopPercent
RetraceAtLeast(entry, currentPrice, pct) ==
    (currentPrice - entry.HighestPrice) * PctScale >= pct * entry.EntryPrice

\* profitPct < -StopLossPercent
LossExceeds(entry, currentPrice, pct) ==
    (entry.EntryPrice - currentPrice) * PctScale < (0 - pct) * entry.EntryPrice

\* Mutant of ShouldExit: the hold time is checked before the stop-loss.
ShouldExit_TimeFirst(entry, currentPrice, t, s) ==
    IF MaxHoldReached(entry, t, s) THEN "MAX_TIME"
    ELSE IF StopLossBreached(entry, currentPrice) THEN "SL_HIT"
    ELSE IF /\ ProfitAtLeast(entry, currentPrice, s.MinProfitPercent)
            /\ RetraceAtLeast(entry, currentPrice, s.TrailingStopPercent)
         THEN "TRAILING_STOP"
    ELSE IF LossExceeds(entry, currentPrice, s.StopLossPercent) THEN "EMERGENCY_EXIT"
    ELSE ""

\* shouldExit: the exit reason, or "" when the position stays open.
ShouldExit(entry, currentPrice, t, s) ==
    IF StopLossBreached(entry, currentPrice) THEN "SL_HIT"
    ELSE IF MaxHoldReached(entry, t, s) THEN "MAX_TIME"
    ELSE IF /\ ProfitAtLeast(entry, currentPrice, s.MinProfitPercent)
            /\ RetraceAtLeast(entry, currentPrice, s.TrailingStopPercent)
         THEN "TRAILING_STOP"
    ELSE IF LossExceeds(entry, currentPrice, s.StopLossPercent) THEN "EMERGENCY_EXIT"
    ELSE ""

\* Mutant of ClosePosition: the exit reason and the exit time are not recorded.
ClosePosition_NoReason(entry, exitPrice, reason, t) ==
    [entry EXCEPT
        !.ExitPrice       = Ptr(exitPrice),
        !.ProfitLoss      = Ptr((entry.EntryPrice - exitPrice) * 100),
        !.ProfitLossPct   = Ptr(((entry.EntryPrice - exitPrice) * PctScale)
                                    \div entry.EntryPrice),
        !.DurationSeconds = t - entry.EntryTime,
        !.Status          = "CLOSED"]

\* closePosition: the exit fields, then Status CLOSED.
ClosePosition(entry, exitPrice, reason, t) ==
    [entry EXCEPT
        !.ExitPrice       = Ptr(exitPrice),
        !.ExitTime        = Ptr(t),
        !.ExitReason      = reason,
        !.ProfitLoss      = Ptr((entry.EntryPrice - exitPrice) * 100),
        !.ProfitLossPct   = Ptr(((entry.EntryPrice - exitPrice) * PctScale)
                                    \div entry.EntryPrice),
        !.DurationSeconds = t - entry.EntryTime,
        !.Status          = "CLOSED"]

\* checkExits, entry by entry in the order the map iteration yields them.
RECURSIVE ExitsLoop(_, _, _, _, _, _)
ExitsLoop(order, ents, hist, cache, t, s) ==
    IF order = <<>>
    THEN [entries |-> ents, history |-> hist]
    ELSE LET e0 == ents[Head(order)]
         IN  IF e0.Symbol \notin DOMAIN cache
             THEN ExitsLoop(Tail(order), ents, hist, cache, t, s)
             ELSE LET currentPrice == cache[e0.Symbol]
                      entry  == IF currentPrice < e0.HighestPrice
                                THEN [e0 EXCEPT !.HighestPrice = currentPrice]
                                ELSE e0
                      reason == ShouldExit(entry, currentPrice, t, s)
                      upd    == IF reason # ""
                                THEN UpdateEntry(ents, hist,
                                        ClosePosition(entry, currentPrice, reason, t))
                                ELSE UpdateEntry(ents, hist, entry)
                 IN  ExitsLoop(Tail(order), upd.entries, upd.history, cache, t, s)

\* Mutant of HasActivePosition: the symbol is never found.
HasActivePosition_Never(ents, symbol) ==
    FALSE

HasActivePosition(ents, symbol) ==
    \E id \in DOMAIN ents : ents[id].Symbol = symbol

\* The six confirmations counted by shouldEnter.  The code reads the wick as
\* features.RejectionWick; MarketFeatures declares RejectionWickRatio only,
\* which is the field followed here.
ReversalSigns(f) ==
      (IF f.RejectionWickRatio > 50 THEN 1 ELSE 0)
    + (IF f.IsAboveUpperBand THEN 1 ELSE 0)
    + (IF f.OverExtEma >= 300 THEN 1 ELSE 0)
    + (IF f.IsBreakdown THEN 1 ELSE 0)
    + (IF f.FundingRate > 30 THEN 1 ELSE 0)
    + (IF f.PctChange24h >= 15 THEN 1 ELSE 0)

\* Mutant of ShouldEnter: one reversal confirmation is enough.
ShouldEnter_OneSign(coin) ==
    IF IsNil(coin.Features) THEN FALSE
    ELSE IF Deref(coin.Features).RSI < 75 THEN FALSE
    ELSE ReversalSigns(Deref(coin.Features)) >= 1

ShouldEnter(coin) ==
    IF IsNil(coin.Features) THEN FALSE
    ELSE IF Deref(coin.Features).RSI < 75 THEN FALSE
    ELSE ReversalSigns(Deref(coin.Features)) >= 2

\* openPosition: the new ACTIVE entry built from the coin.
OpenPosition(coin, id, t, s) ==
    [ID              |-> id,
     Symbol          |-> coin.Symbol,
     EntryPrice      |-> coin.Price,
     StopLoss        |-> coin.Price * (PctScale + s.StopLossPercent),
     EntryTime       |-> t,
     ExitPrice       |-> Nil,
     ExitTime        |-> Nil,
     ExitReason      |-> "",
     ProfitLoss      |-> Nil,
     ProfitLossPct   |-> Nil,
     DurationSeconds |-> 0,
     Status          |-> "ACTIVE",
     EntryScore      |-> coin.Score,
     HighestPrice    |-> coin.Price,
     TrailingStopPct |-> s.TrailingStopPercent,
     IsRealTrade     |-> FALSE,
     Quantity        |-> 0,
     Leverage        |-> 0,
     BinanceOrderID  |-> Nil,
     BinanceSLOrderID |-> Nil]

\* The loop of checkEntries over the snapshot, with its local activeCount.
RECURSIVE EntriesLoop(_, _, _, _, _, _)
EntriesLoop(cs, ents, activeCount, nid, t, s) ==
    IF cs = <<>> \/ activeCount >= s.MaxConcurrentTrades
    THEN [entries |-> ents, nextId |-> nid]
    ELSE LET coin == Head(cs)
         IN  IF HasActivePosition(ents, coin.Symbol)
             THEN EntriesLoop(Tail(cs), ents, activeCount, nid, t, s)
             ELSE IF ShouldEnter(coin)
             THEN EntriesLoop(Tail(cs),
                              CreateEntry(ents, OpenPosition(coin, nid, t, s)),
                              activeCount + 1, nid + 1, t, s)
             ELSE EntriesLoop(Tail(cs), ents, activeCount, nid, t, s)

CheckEntries(cs, ents, nid, t, s) ==
    IF Cardinality(DOMAIN ents) >= s.MaxConcurrentTrades
    THEN [entries |-> ents, nextId |-> nid]
    ELSE EntriesLoop(cs, ents, Cardinality(DOMAIN ents), nid, t, s)

\* GetCoins as called by the monitor: a copy of the published list.
GetCoins ==
    coins

\* One call of MonitorAndExecute by the 5-second ticker goroutine.
MonitorAndExecute ==
    /\ IF ~settings.Enabled
       THEN UNCHANGED <<priceCache, entries, history, nextId>>
       ELSE \E order \in Orders(DOMAIN entries) :
              LET cache == UpdatePriceCache(priceCache, GetCoins)
                  ex    == ExitsLoop(order, entries, history, cache, now, settings)
                  en    == CheckEntries(GetCoins, ex.entries, nextId, now, settings)
              IN  /\ en.nextId <= MaxOpened + 1
                  /\ priceCache' = cache
                  /\ entries' = en.entries
                  /\ history' = ex.history
                  /\ nextId' = en.nextId
    /\ ticked' = TRUE
    /\ UNCHANGED <<coins, settings, now>>
    /\ UNCHANGED scanVars
    /\ UNCHANGED notifyVars
    /\ UNCHANGED tradeVars
    /\ UNCHANGED lockVars
    /\ UNCHANGED indVars

\* UpdateSettings: the pointer is replaced, last write wins.
UpdateSettings(s) ==
    /\ settings' = s
    /\ ticked' = FALSE
    /\ UNCHANGED <<coins, priceCache, entries, history, nextId, now>>
    /\ UNCHANGED scanVars
    /\ UNCHANGED notifyVars
    /\ UNCHANGED tradeVars
    /\ UNCHANGED lockVars
    /\ UNCHANGED indVars

\* Time passes.
AdvanceClock ==
    /\ now + ClockStep <= MaxNow
    /\ now' = now + ClockStep
    /\ ticked' = FALSE
    /\ UNCHANGED <<coins, settings, priceCache, entries, history, nextId>>
    /\ UNCHANGED scanVars
    /\ UNCHANGED notifyVars
    /\ UNCHANGED tradeVars
    /\ UNCHANGED lockVars
    /\ UNCHANGED indVars

---------------------------------------------------------------------------
(* InMemoryScreenerRepository and the snapshots the engine is driven with *)

\* Mutant of SaveCoins: the list is appended to the stored one.
SaveCoins_Append(cs) ==
    coins' = coins \o cs

\* SaveCoins: the whole list is replaced.
SaveCoins(cs) ==
    coins' = cs

\* The coin process() computes for a symbol whose two core timeframes show
\* the features f and the last close p.
CoinOf(symbol, p, f) ==
    Deref(AnalyseSymbol(symbol, <<KlineAnswer(FALSE, MinKlines, f, p),
                                  KlineAnswer(FALSE, MinKlines, f, p)>>))

\* AAAUSDT shows every overbought profile at 100.00, where the
\* driven positions are entered, and moves through the other prices with RSI
\* below the gate; BBBUSDT is the second entry candidate.
CoinInputs ==
    {CoinOf("AAAUSDT", 10000, f) : f \in {FBoundary, FOneSign}}
    \cup {CoinOf("AAAUSDT", p, FLowRsi) : p \in PriceSet \ {10000}}
    \cup {CoinOf("BBBUSDT", 10000, FStrong)}

IsSortedByScore(cs) ==
    \A i \in 1..(Len(cs) - 1) : cs[i].Score >= cs[i + 1].Score

\* Score-descending lists with one coin per symbol, as a finished cycle publishes.
SnapshotInputs ==
    {<<>>} \cup {<<c>> : c \in CoinInputs}
    \cup {cs \in {<<c, d>> : c, d \in CoinInputs} :
            cs[1].Symbol # cs[2].Symbol /\ IsSortedByScore(cs)}

PublishSnapshot(cs) ==
    /\ SaveCoins(cs)
    /\ ticked' = FALSE
    /\ UNCHANGED <<settings, priceCache, entries, history, nextId, now>>
    /\ UNCHANGED scanVars
    /\ UNCHANGED notifyVars
    /\ UNCHANGED tradeVars
    /\ UNCHANGED lockVars
    /\ UNCHANGED indVars

---------------------------------------------------------------------------
(* The accesses of the goroutines to the process-wide mutable state *)

\* One access: the state it touches, read or write, and whether the code makes
\* it between Lock/RLock and Unlock/RUnlock of that state's mutex.
Access(state, kind, locked) ==
    [state |-> state, kind |-> kind, locked |-> locked]

\* MonitorAndExecute, in program order: s.settings.Enabled; updatePriceCache
\* (GetCoins); checkExits (GetActiveEntries, the settings read by shouldExit,
\* UpdateEntry); checkEntries (GetActiveEntries, s.settings.MaxConcurrentTrades,
\* GetCoins, hasActivePosition, CreateEntry).
MonitorAndExecuteAccesses ==
    <<Access("settings", "read", FALSE),
      Access("snapshot", "read", TRUE),
      Access("positions", "read", TRUE),
      Access("settings", "read", FALSE),
      Access("positions", "write", TRUE),
      Access("positions", "read", TRUE),
      Access("settings", "read", FALSE),
      Access("snapshot", "read", TRUE),
      Access("positions", "read", TRUE),
      Access("positions", "write", TRUE)>>

\* process(): SaveCoins, then in sendNotificationsForTriggers the cooldown
\* read, the timestamp write and the cleanup.
ProcessAccesses ==
    <<Access("snapshot", "write", TRUE),
      Access("cooldown", "read", TRUE),
      Access("cooldown", "write", TRUE),
      Access("cooldown", "write", TRUE)>>

\* The goroutines: the 5-second monitor, two overlapping scan cycles, and the
\* HTTP handlers for the settings and for the coins.
Programs ==
    [monitor        |-> MonitorAndExecuteAccesses,
     scan1          |-> ProcessAccesses,
     scan2          |-> ProcessAccesses,
     GetSettings    |-> <<Access("settings", "read", FALSE)>>,
     UpdateSettings |-> <<Access("settings", "write", FALSE)>>,
     GetCoins       |-> <<Access("snapshot", "read", TRUE)>>]

\* No goroutine is running a call.
Idle ==
    [t \in DOMAIN Programs |-> [at |-> 0, inside |-> FALSE]]

---------------------------------------------------------------------------
(* The auto-scalp engine driven by snapshots, settings updates and the clock *)

Init ==
    /\ coins = <<>>
    /\ settings = DefaultSettings
    /\ priceCache = [s \in {} |-> 0]
    /\ entries = NoEntries
    /\ history = <<>>
    /\ nextId = 1
    /\ now = 0
    /\ ticked = FALSE
    /\ market = [symbols |-> {}, tickers |-> {}, klines |-> {}, fcm |-> FALSE, tokens |-> 0]
    /\ cycles = <<>>
    /\ published = {}
    /\ lastRead = <<>>
    /\ notifiedCoins = [s \in {} |-> 0]
    /\ sent = {}
    /\ orders = <<>>
    /\ result = Nil
    /\ threads = Idle
    /\ calc = Nil

Next ==
    \/ MonitorAndExecute
    \/ \E s \in SettingsInputs : UpdateSettings(s)
    \/ \E cs \in SnapshotInputs : PublishSnapshot(cs)
    \/ AdvanceClock

Spec ==
    Init /\ [][Next]_vars

---------------------------------------------------------------------------
(* screener.go: Run and the process() goroutines it starts *)

\* The locals of a process() call at its start.
NewCycle ==
    [pc |-> "symbols", symbols |-> {}, units |-> [s \in {} |-> 0],
     computedCoins |-> <<>>, at |-> 0, idx |-> 0]

\* A process() call that has returned: its locals are gone.
Returned ==
    [NewCycle EXCEPT !.pc = "returned"]

\* A process() call that returned at a failed fetch of the symbols or tickers.
Failed ==
    [NewCycle EXCEPT !.pc = "failed"]

\* Mutant of Running: a unit keeps its permit after it has returned.
Running_NoRelease(c) ==
    {s \in DOMAIN cycles[c].units : cycles[c].units[s].pc \in {"run", "done"}}

Running(c) ==
    {s \in DOMAIN cycles[c].units : cycles[c].units[s].pc = "run"}

\* Run: go uc.process(), at start and at every tick of the one-minute ticker.
StartCycle ==
    /\ Len(cycles) < MaxCycles
    /\ cycles' = Append(cycles, NewCycle)
    /\ UNCHANGED <<coins, market, published, lastRead>>
    /\ UNCHANGED scalpVars
    /\ UNCHANGED notifyVars
    /\ UNCHANGED tradeVars
    /\ UNCHANGED lockVars
    /\ UNCHANGED indVars

\* GetActiveTradingSymbols answers or fails; process() returns on failure.
GetActiveTradingSymbols(c) ==
    /\ cycles[c].pc = "symbols"
    /\ \/ cycles' = [cycles EXCEPT ![c].pc = "tickers", ![c].symbols = market.symbols]
       \/ cycles' = [cycles EXCEPT ![c] = Failed]
    /\ UNCHANGED <<coins, market, published, lastRead>>
    /\ UNCHANGED scalpVars
    /\ UNCHANGED notifyVars
    /\ UNCHANGED tradeVars
    /\ UNCHANGED lockVars
    /\ UNCHANGED indVars

\* Mutant of GetFutures24hrTicker: a failed fetch publishes an empty list.
GetFutures24hrTicker_Blank(c) ==
    /\ cycles[c].pc = "tickers"
    /\ \/ /\ cycles' = [cycles EXCEPT
                           ![c].pc = "wait",
                           ![c].units = [s \in cycles[c].symbols \cap market.tickers |->
                                            [pc |-> "sem", analysed |-> 0]]]
          /\ UNCHANGED <<coins, published>>
       \/ /\ cycles' = [cycles EXCEPT ![c] = Failed]
          /\ SaveCoins(<<>>)
          /\ published' = published \cup {<<>>}
    /\ UNCHANGED <<market, lastRead>>
    /\ UNCHANGED scalpVars
    /\ UNCHANGED notifyVars
    /\ UNCHANGED tradeVars
    /\ UNCHANGED lockVars
    /\ UNCHANGED indVars

\* GetFutures24hrTicker answers or fails; then one goroutine per symbol that
\* has a ticker is started.
GetFutures24hrTicker(c) ==
    /\ cycles[c].pc = "tickers"
    /\ \/ cycles' = [cycles EXCEPT
                        ![c].pc = "wait",
                        ![c].units = [s \in cycles[c].symbols \cap market.tickers |->
                                         [pc |-> "sem", analysed |-> 0]]]
       \/ cycles' = [cycles EXCEPT ![c] = Failed]
    /\ UNCHANGED <<coins, market, published, lastRead>>
    /\ UNCHANGED scalpVars
    /\ UNCHANGED notifyVars
    /\ UNCHANGED tradeVars
    /\ UNCHANGED lockVars
    /\ UNCHANGED indVars

\* sem <- struct{}{}: blocks while the SemCapacity permits of this call's
\* semaphore are taken.
UnitAcquire(c, s) ==
    /\ cycles[c].pc = "wait"
    /\ cycles[c].units[s].pc = "sem"
    /\ Cardinality(Running(c)) < SemCapacity
    /\ cycles' = [cycles EXCEPT ![c].units[s].pc = "run"]
    /\ UNCHANGED <<coins, market, published, lastRead>>
    /\ UNCHANGED scalpVars
    /\ UNCHANGED notifyVars
    /\ UNCHANGED tradeVars
    /\ UNCHANGED lockVars
    /\ UNCHANGED indVars

\* The fetches and the analysis of one symbol, the append under mu, and the
\* deferred release of the permit and wg.Done().
UnitRun(c, s) ==
    /\ cycles[c].pc = "wait"
    /\ cycles[c].units[s].pc = "run"
    /\ \E a1, a5 \in market.klines :
          LET answers == <<a1, a5>>
              coin    == AnalyseSymbol(s, answers)
          IN  cycles' = [cycles EXCEPT
                  ![c].units[s] = [pc |-> "done",
                                   analysed |-> Cardinality(AnalysedTFs(answers))],
                  ![c].computedCoins =
                      IF IsNil(coin) THEN @ ELSE Append(@, Deref(coin))]
    /\ UNCHANGED <<coins, market, published, lastRead>>
    /\ UNCHANGED scalpVars
    /\ UNCHANGED notifyVars
    /\ UNCHANGED tradeVars
    /\ UNCHANGED lockVars
    /\ UNCHANGED indVars

\* sendNotificationsForTriggers, up to its loop: it returns at once when
\* delivery is off or no device token is registered; otherwise it reads the
\* clock once and walks the list it was given.
DeliveryOn ==
    market.fcm /\ market.tokens > 0

\* wg.Wait() has returned: sort.Slice, then SaveCoins, then the call of
\* sendNotificationsForTriggers with the sorted list.
PublishCycle(c) ==
    /\ cycles[c].pc = "wait"
    /\ \A s \in DOMAIN cycles[c].units : cycles[c].units[s].pc = "done"
    /\ \E sorted \in SortSlice(cycles[c].computedCoins) :
          /\ SaveCoins(sorted)
          /\ published' = published \cup {sorted}
          /\ cycles' = [cycles EXCEPT ![c] =
                            IF DeliveryOn
                            THEN [NewCycle EXCEPT !.pc = "notify",
                                                  !.computedCoins = sorted,
                                                  !.at = now, !.idx = 1]
                            ELSE Returned]
    /\ UNCHANGED <<market, lastRead>>
    /\ UNCHANGED scalpVars
    /\ UNCHANGED notifyVars
    /\ UNCHANGED tradeVars
    /\ UNCHANGED lockVars
    /\ UNCHANGED indVars

\* A reader (HTTP handler, monitor) calls GetCoins.
ReadCoins ==
    /\ lastRead' = GetCoins
    /\ UNCHANGED <<coins, market, cycles, published>>
    /\ UNCHANGED scalpVars
    /\ UNCHANGED notifyVars
    /\ UNCHANGED tradeVars
    /\ UNCHANGED lockVars
    /\ UNCHANGED indVars

NextScan ==
    \/ StartCycle
    \/ \E c \in DOMAIN cycles : GetActiveTradingSymbols(c)
    \/ \E c \in DOMAIN cycles : GetFutures24hrTicker(c)
    \/ \E c \in DOMAIN cycles : \E s \in DOMAIN cycles[c].units : UnitAcquire(c, s)
    \/ \E c \in DOMAIN cycles : \E s \in DOMAIN cycles[c].units : UnitRun(c, s)
    \/ \E c \in DOMAIN cycles : PublishCycle(c)
    \/ ReadCoins

InitScalp ==
    /\ settings = DefaultSettings
    /\ priceCache = [s \in {} |-> 0]
    /\ entries = NoEntries
    /\ history = <<>>
    /\ nextId = 1
    /\ now = 0
    /\ ticked = FALSE

\* Answers of GetKlines: an error, one kline too few, just enough klines.
ScanKlines ==
    {KlineAnswer(TRUE, 0, NoFeatures, 0),
     KlineAnswer(FALSE, MinKlines - 1, FStrong, 10000),
     KlineAnswer(FALSE, MinKlines, FStrong, 10000)}

\* Three listed symbols, two of them with a futures ticker; kline fetches
\* may fail or come back short.
InitScan ==
    /\ InitScalp
    /\ coins = <<>>
    /\ market = [symbols |-> Symbols \cup {"CCCUSDT"},
                 tickers |-> Symbols,
                 klines  |-> ScanKlines,
                 fcm     |-> FALSE,
                 tokens  |-> 0]
    /\ cycles = <<>>
    /\ published = {}
    /\ lastRead = <<>>
    /\ notifiedCoins = [s \in {} |-> 0]
    /\ sent = {}
    /\ orders = <<>>
    /\ result = Nil
    /\ threads = Idle
    /\ calc = Nil

SpecScan ==
    InitScan /\ [][NextScan]_vars

\* Answers of GetKlines with enough klines and features of different scores.
RankKlines ==
    {KlineAnswer(FALSE, MinKlines, FStrong, 10000),
     KlineAnswer(FALSE, MinKlines, FOneSign, 10000)}

\* The same universe with every kline fetch answered in full.
InitRank ==
    /\ InitScalp
    /\ coins = <<>>
    /\ market = [symbols |-> Symbols \cup {"CCCUSDT"},
                 tickers |-> Symbols,
                 klines  |-> RankKlines,
                 fcm     |-> FALSE,
                 tokens  |-> 0]
    /\ cycles = <<>>
    /\ published = {}
    /\ lastRead = <<>>
    /\ notifiedCoins = [s \in {} |-> 0]
    /\ sent = {}
    /\ orders = <<>>
    /\ result = Nil
    /\ threads = Idle
    /\ calc = Nil

SpecRank ==
    InitRank /\ [][NextScan]_vars

\* Symbols of the large universe.
SemSymbols ==
    {"AAAUSDT", "BBBUSDT", "CCCUSDT", "DDDUSDT", "EEEUSDT", "FFFUSDT"}

\* A universe of which two overlapping cycles start more units than one
\* semaphore has permits; every kline fetch fails.
InitSem ==
    /\ InitScalp
    /\ coins = <<>>
    /\ market = [symbols |-> SemSymbols,
                 tickers |-> SemSymbols,
                 klines  |-> {KlineAnswer(TRUE, 0, NoFeatures, 0)},
                 fcm     |-> FALSE,
                 tokens  |-> 0]
    /\ cycles = <<>>
    /\ published = {}
    /\ lastRead = <<>>
    /\ notifiedCoins = [s \in {} |-> 0]
    /\ sent = {}
    /\ orders = <<>>
    /\ result = Nil
    /\ threads = Idle
    /\ calc = Nil

SpecSem ==
    InitSem /\ [][NextScan]_vars

\* One symbol more than one semaphore has permits.
PoolSymbols ==
    SemSymbols \cup {"GGGUSDT", "HHHUSDT", "IIIUSDT", "JJJUSDT", "KKKUSDT"}

\* Every symbol is listed and has a ticker; every kline fetch returns an error.
InitPool ==
    /\ InitScalp
    /\ coins = <<>>
    /\ market = [symbols |-> PoolSymbols,
                 tickers |-> PoolSymbols,
                 klines  |-> {KlineAnswer(TRUE, 0, NoFeatures, 0)},
                 fcm     |-> FALSE,
                 tokens  |-> 0]
    /\ cycles = <<>>
    /\ published = {}
    /\ lastRead = <<>>
    /\ notifiedCoins = [s \in {} |-> 0]
    /\ sent = {}
    /\ orders = <<>>
    /\ result = Nil
    /\ threads = Idle
    /\ calc = Nil

\* The first process() call of Run and the goroutines it starts.
NextPool ==
    \/ cycles = <<>> /\ StartCycle
    \/ \E c \in DOMAIN cycles : GetActiveTradingSymbols(c)
    \/ \E c \in DOMAIN cycles : GetFutures24hrTicker(c)
    \/ \E c \in DOMAIN cycles : \E s \in DOMAIN cycles[c].units : UnitAcquire(c, s)
    \/ \E c \in DOMAIN cycles : \E s \in DOMAIN cycles[c].units : UnitRun(c, s)
    \/ \E c \in DOMAIN cycles : PublishCycle(c)

\* Every network call returns and a goroutine that can take a step is
\* eventually scheduled.
SpecPool ==
    InitPool /\ [][NextPool]_vars /\ WF_vars(NextPool)

---------------------------------------------------------------------------
(* The scoring functions over a grid of MarketFeatures *)

\* Features built from one choice per group of scoring inputs: nothing, values
\* that score without aligning the timeframe, and values that exceed the cap.
ScoreFeatures ==
    {[NoFeatures EXCEPT !.PctChange24h = o[1], !.OverExtEma = o[2],
                        !.OverExtVwap = o[3],
                        !.FundingRate = c[1], !.OpenInterestDelta = c[2],
                        !.RSI = e[1], !.IsAboveUpperBand = e[2],
                        !.RejectionWickRatio = e[3],
                        !.IsBreakdown = s, !.IsRetest = s,
                        !.IsLosingMomentum = m[1], !.HasRsiDivergence = m[1],
                        !.HasVolumeDivergence = m[1], !.RsiSlope = m[2]] :
        o \in {<<0, 0, 0>>, <<50, 200, 500>>, <<50, 800, 500>>},
        c \in {<<0, 0>>, <<101, 11>>},
        e \in {<<50, FALSE, 0>>, <<60, FALSE, 51>>, <<82, TRUE, 60>>},
        s \in BOOLEAN,
        m \in {<<FALSE, 0>>, <<FALSE, -4>>, <<TRUE, -4>>}}

\* One listed symbol; each timeframe answers with the features of the grid or
\* with one of two fixed profiles.
InitScore ==
    /\ InitScalp
    /\ coins = <<>>
    /\ \E f \in ScoreFeatures : \E g \in {NoFeatures, FStrong} :
          market = [symbols |-> {"AAAUSDT"},
                    tickers |-> {"AAAUSDT"},
                    klines  |-> {KlineAnswer(FALSE, MinKlines, f, 10000),
                                 KlineAnswer(FALSE, MinKlines, g, 10000)},
                    fcm     |-> FALSE,
                    tokens  |-> 0]
    /\ cycles = <<>>
    /\ published = {}
    /\ lastRead = <<>>
    /\ notifiedCoins = [s \in {} |-> 0]
    /\ sent = {}
    /\ orders = <<>>
    /\ result = Nil
    /\ threads = Idle
    /\ calc = Nil

SpecScore ==
    InitScore /\ [][NextScan]_vars

---------------------------------------------------------------------------
(* notification.go: sendNotificationsForTriggers, called by process() *)

\* cooldownDuration, in seconds.
CooldownDuration ==
    300

\* Seconds between two readings of the clock, and the last reading followed.
NotifyClockStep ==
    150

MaxNotifyNow ==
    750

\* exists && now.Sub(lastNotified) < cooldownDuration
InCooldown(table, symbol, t) ==
    /\ symbol \in DOMAIN table
    /\ t - table[symbol] < CooldownDuration

\* The closing loop: delete every entry with now.Sub(timestamp) > 2 * cooldown.
Cleanup(table, t) ==
    [s \in {x \in DOMAIN table : ~(t - table[x] > CooldownDuration * 2)} |-> table[s]]

\* uc.notifiedCoins[coin.Symbol] = now
MarkNotified(table, symbol, t) ==
    [s \in DOMAIN table \cup {symbol} |-> IF s = symbol THEN t ELSE table[s]]

\* One turn of the loop up to the decision to send: the status and score
\* filter, then the cooldown read under uc.mu.RLock().
NotifyCoin(c) ==
    /\ cycles[c].pc = "notify"
    /\ cycles[c].idx <= Len(cycles[c].computedCoins)
    /\ LET coin == cycles[c].computedCoins[cycles[c].idx]
       IN  cycles' = IF \/ coin.Status # "TRIGGER"
                        \/ coin.Score < 70 * ScoreScale
                        \/ InCooldown(notifiedCoins, coin.Symbol, cycles[c].at)
                     THEN [cycles EXCEPT ![c].idx = @ + 1]
                     ELSE [cycles EXCEPT ![c].pc = "send"]
    /\ UNCHANGED <<coins, market, published, lastRead>>
    /\ UNCHANGED scalpVars
    /\ UNCHANGED notifyVars
    /\ UNCHANGED tradeVars
    /\ UNCHANGED lockVars
    /\ UNCHANGED indVars

\* SendMulticast fails (logged only) or succeeds; on success the timestamp is
\* written under uc.mu.Lock().
SendMulticast(c) ==
    /\ cycles[c].pc = "send"
    /\ LET coin == cycles[c].computedCoins[cycles[c].idx]
       IN  \/ UNCHANGED notifyVars
           \/ /\ sent' = sent \cup {[symbol |-> coin.Symbol, at |-> cycles[c].at,
                                     cycle |-> c]}
              /\ notifiedCoins' = MarkNotified(notifiedCoins, coin.Symbol, cycles[c].at)
    /\ cycles' = [cycles EXCEPT ![c].pc = "notify", ![c].idx = @ + 1]
    /\ UNCHANGED <<coins, market, published, lastRead>>
    /\ UNCHANGED scalpVars
    /\ UNCHANGED tradeVars
    /\ UNCHANGED lockVars
    /\ UNCHANGED indVars

\* The loop is over: the cleanup under uc.mu.Lock(), then the return.
NotifyCleanup(c) ==
    /\ cycles[c].pc = "notify"
    /\ cycles[c].idx > Len(cycles[c].computedCoins)
    /\ notifiedCoins' = Cleanup(notifiedCoins, cycles[c].at)
    /\ cycles' = [cycles EXCEPT ![c] = Returned]
    /\ UNCHANGED <<coins, market, published, lastRead, sent>>
    /\ UNCHANGED scalpVars
    /\ UNCHANGED tradeVars
    /\ UNCHANGED lockVars
    /\ UNCHANGED indVars

\* Time passes between two readings of time.Now().
PassTime ==
    /\ now + NotifyClockStep <= MaxNotifyNow
    /\ now' = now + NotifyClockStep
    /\ UNCHANGED <<settings, priceCache, entries, history, nextId, ticked>>
    /\ UNCHANGED <<coins, market, cycles, published, lastRead>>
    /\ UNCHANGED notifyVars
    /\ UNCHANGED tradeVars
    /\ UNCHANGED lockVars
    /\ UNCHANGED indVars

NextNotify ==
    \/ NextScan
    \/ \E c \in DOMAIN cycles : NotifyCoin(c)
    \/ \E c \in DOMAIN cycles : SendMulticast(c)
    \/ \E c \in DOMAIN cycles : NotifyCleanup(c)
    \/ PassTime

\* Klines whose two timeframes score 45 or 55 each: every coin is a TRIGGER,
\* with a final score of 58.5, 65 or 71.5.
NotifyKlines ==
    {KlineAnswer(FALSE, MinKlines, FStrong, 10000),
     KlineAnswer(FALSE, MinKlines, FLowRsi, 10000)}

\* One listed symbol, delivery on, one device registered.
InitNotify ==
    /\ InitScalp
    /\ coins = <<>>
    /\ market = [symbols |-> {"AAAUSDT"},
                 tickers |-> {"AAAUSDT"},
                 klines  |-> NotifyKlines,
                 fcm     |-> TRUE,
                 tokens  |-> 1]
    /\ cycles = <<>>
    /\ published = {}
    /\ lastRead = <<>>
    /\ notifiedCoins = [s \in {} |-> 0]
    /\ sent = {}
    /\ orders = <<>>
    /\ result = Nil
    /\ threads = Idle
    /\ calc = Nil

SpecNotify ==
    InitNotify /\ [][NextNotify]_vars

---------------------------------------------------------------------------
(* binance_trading.go: PlaceShortWithStopLoss *)

\* The trading configurations a user can have stored: the repository default
\* (real trading off), the default switched on, and one without an amount.
TradingConfigs ==
    {[EnableRealTrading |-> FALSE, TradeAmountUSDT |-> 10, Leverage |-> 1],
     [EnableRealTrading |-> TRUE, TradeAmountUSDT |-> 10, Leverage |-> 1],
     [EnableRealTrading |-> TRUE, TradeAmountUSDT |-> 0, Leverage |-> 1]}

\* What the exchange answers to an order: accepted, refused with code -4061
\* (position side does not match the account's position mode), refused otherwise.
OrderAnswers ==
    {"ok", "-4061", "error"}

\* leverage as used for the quantity: the configured one when none is given,
\* then kept within 1..20.
ClampLeverage(leverage, cfg) ==
    LET l == IF leverage <= 0 THEN cfg.Leverage ELSE leverage
    IN  IF l < 1 THEN 1 ELSE IF l > 20 THEN 20 ELSE l

\* qty in thousandths: floorTo(tradeAmountUSDT * leverage / entryPrice, 3).
Quantity(tradeAmountUSDT, leverage, entryPrice) ==
    (tradeAmountUSDT * leverage * 100 * 1000) \div entryPrice

\* A request sent to the exchange and its answer.
OrderRequest(type, symbol, side, positionSide, answer) ==
    [type |-> type, symbol |-> symbol, side |-> side,
     positionSide |-> positionSide, answer |-> answer]

\* Mutant of EntryOrders: the entry is retried after any refusal.
EntryOrders_RetryAny(symbol, e1, e2) ==
    IF e1 # "ok"
    THEN <<OrderRequest("MARKET", symbol, "SELL", "SHORT", e1),
           OrderRequest("MARKET", symbol, "SELL", "BOTH", e2)>>
    ELSE <<OrderRequest("MARKET", symbol, "SELL", "SHORT", e1)>>

\* 1) The entry: SELL MARKET with positionSide SHORT, and once more with BOTH
\* when the answer was a BinanceAPIError of code -4061.
EntryOrders(symbol, e1, e2) ==
    IF e1 = "-4061"
    THEN <<OrderRequest("MARKET", symbol, "SELL", "SHORT", e1),
           OrderRequest("MARKET", symbol, "SELL", "BOTH", e2)>>
    ELSE <<OrderRequest("MARKET", symbol, "SELL", "SHORT", e1)>>

\* Mutant of StopOrders: a refused stop is followed by a market close.
StopOrders_AutoClose(symbol, positionSide, sl) ==
    IF sl = "ok"
    THEN <<OrderRequest("STOP_MARKET", symbol, "BUY", positionSide, sl)>>
    ELSE <<OrderRequest("STOP_MARKET", symbol, "BUY", positionSide, sl),
           OrderRequest("MARKET", symbol, "BUY", positionSide, "ok")>>

\* 2) PlaceStopLossOrder: one STOP_MARKET closePosition order, BUY for a
\* position side other than LONG.
StopOrders(symbol, positionSide, sl) ==
    <<OrderRequest("STOP_MARKET", symbol, "BUY", positionSide, sl)>>

\* The named results of PlaceShortWithStopLoss, and its CRITICAL log line.
TradeResult(symbol, entryOrderID, slOrderID, qty, err, critical) ==
    Ptr([symbol |-> symbol, entryOrderID |-> entryOrderID,
         slOrderID |-> slOrderID, qty |-> qty, err |-> err,
         critical |-> critical])

\* UpdateOrAttachBinanceOrders: the possible contents of the map afterwards.
\* The latest ACTIVE entry of the symbol is updated in place; among entries of
\* the same EntryTime the first one ranged over is taken.
UpdateOrAttachBinanceOrders(ents, symbol, entryOrderID, slOrderID, qty, leverage, filledPrice) ==
    LET active == {id \in DOMAIN ents :
                      ents[id].Symbol = symbol /\ ents[id].Status = "ACTIVE"}
        latest == {id \in active :
                      \A other \in active : ents[other].EntryTime <= ents[id].EntryTime}
    IN  IF active = {}
        THEN {ents}
        ELSE {[ents EXCEPT ![id] =
                  [@ EXCEPT !.IsRealTrade = TRUE,
                            !.Quantity = qty,
                            !.Leverage = leverage,
                            !.EntryPrice = IF filledPrice > 0 THEN filledPrice ELSE @,
                            !.BinanceOrderID = Ptr(entryOrderID),
                            !.BinanceSLOrderID = Ptr(slOrderID)]] : id \in latest}

\* One call of PlaceShortWithStopLoss. pre names the first of GetCredentials,
\* SetLeverage, GetAccountInfo and the balance test that fails, run holds the
\* exchange's answers to the orders. The order IDs the exchange hands out are
\* the positions of the requests in the call's log.
PlaceShortWithStopLoss(symbol, entryPrice, tradeAmountUSDT, leverage, cfg, pre, run) ==
    LET amount   == IF tradeAmountUSDT <= 0 THEN cfg.TradeAmountUSDT ELSE tradeAmountUSDT
        lev      == ClampLeverage(leverage, cfg)
        qty      == Quantity(amount, lev, entryPrice)
        early    == IF ~cfg.EnableRealTrading THEN "real trading is disabled"
                    ELSE IF pre = "credentials" THEN "binance credentials not configured"
                    ELSE IF pre # "ok" THEN pre
                    ELSE IF qty <= 0 THEN "calculated quantity too small"
                    ELSE ""
        entry    == EntryOrders(symbol, run.e1, run.e2)
        last     == entry[Len(entry)]
        stop     == StopOrders(symbol, last.positionSide, run.sl)
        filled   == IF run.executedPrice <= 0 THEN entryPrice ELSE run.executedPrice
    IN  /\ IF early # ""
           THEN /\ orders' = <<>>
                /\ result' = TradeResult(symbol, 0, 0, 0, early, FALSE)
                /\ UNCHANGED entries
           ELSE IF last.answer # "ok"
           THEN /\ orders' = entry
                /\ result' = TradeResult(symbol, 0, 0, 0, last.answer, FALSE)
                /\ UNCHANGED entries
           ELSE IF run.sl # "ok"
           THEN /\ orders' = entry \o stop
                /\ result' = TradeResult(symbol, Len(entry), 0, qty, run.sl, TRUE)
                /\ UNCHANGED entries
           ELSE /\ orders' = entry \o stop
                /\ result' = TradeResult(symbol, Len(entry), Len(entry) + 1, qty, "", FALSE)
                /\ entries' \in UpdateOrAttachBinanceOrders(entries, symbol, Len(entry),
                                   Len(entry) + 1, qty, lev, filled)
        /\ ticked' = FALSE
        /\ UNCHANGED <<settings, priceCache, history, nextId, now>>
        /\ UNCHANGED <<coins, market, cycles, published, lastRead>>
        /\ UNCHANGED notifyVars
        /\ UNCHANGED lockVars
        /\ UNCHANGED indVars

\* The first failing step before the orders, if any.
Prechecks ==
    {"ok", "credentials", "set leverage", "account info", "insufficient balance"}

\* The exchange's answers during one call: to the entry, to its retry, the
\* executed price it reports, and its answer to the stop. Answers to requests
\* that are not sent are left out (one representative).
ExchangeRuns ==
    {r \in [e1 : OrderAnswers, e2 : OrderAnswers, executedPrice : {0, 10050},
            sl : {"ok", "error"}] :
        /\ r.e1 # "-4061" => r.e2 = "ok"
        /\ (r.e1 = "error" \/ (r.e1 = "-4061" /\ r.e2 # "ok"))
               => (r.executedPrice = 0 /\ r.sl = "ok")}

\* A caller of the trading service with its arguments, and the answers of the
\* stores and of the exchange during the call. Inputs the call returns before
\* reading are fixed to one representative.
PlaceOrderCall ==
    \E symbol \in Symbols, cfg \in TradingConfigs, pre \in Prechecks :
        LET returnsEarly ==
                ~cfg.EnableRealTrading \/ pre # "ok" \/ cfg.TradeAmountUSDT = 0
        IN  /\ ~cfg.EnableRealTrading => pre = "ok"
            /\ pre # "ok" => cfg.TradeAmountUSDT > 0
            /\ \E leverage \in IF returnsEarly THEN {0} ELSE {0, 25} :
               \E run \in IF returnsEarly
                          THEN {r \in ExchangeRuns : r.e1 = "ok" /\ r.sl = "ok"
                                                      /\ r.executedPrice = 0}
                          ELSE ExchangeRuns :
                  PlaceShortWithStopLoss(symbol, 10000, 0, leverage, cfg, pre, run)

\* The engine driven with one settings change and one snapshot, next to the
\* callers of the trading service.
NextTrade ==
    \/ PlaceOrderCall
    \/ MonitorAndExecute
    \/ UpdateSettings([DefaultSettings EXCEPT !.Enabled = TRUE])
    \/ PublishSnapshot(<<CoinOf("AAAUSDT", 10000, FBoundary)>>)

SpecTrade ==
    Init /\ [][NextTrade]_vars

\* A call of the trading service for AAAUSDT that places both orders: real
\* trading on, every precheck passed, the entry accepted at once and reported
\* as filled at 99.80 or at 100.50, or with no price.
AttachCall ==
    \E executedPrice \in {0, 9980, 10050} :
        PlaceShortWithStopLoss("AAAUSDT", 10000, 0, 0,
            [EnableRealTrading |-> TRUE, TradeAmountUSDT |-> 10, Leverage |-> 1],
            "ok",
            [e1 |-> "ok", e2 |-> "ok", executedPrice |-> executedPrice, sl |-> "ok"])

\* Snapshots that open a position of AAAUSDT at 100.00 and then move its price
\* above the stop (100.40 with the default settings).
LifeSnapshots ==
    {<<CoinOf("AAAUSDT", 10000, FBoundary)>>,
     <<CoinOf("AAAUSDT", 10045, FLowRsi)>>,
     <<CoinOf("AAAUSDT", 10050, FLowRsi)>>}

\* The engine with positions that are opened, attached to orders, closed and
\* opened again.
NextLife ==
    \/ AttachCall
    \/ MonitorAndExecute
    \/ \E s \in SettingsInputs \ {DefaultSettings} : UpdateSettings(s)
    \/ \E cs \in LifeSnapshots : PublishSnapshot(cs)
    \/ AdvanceClock

SpecLife ==
    Init /\ [][NextLife]_vars

---------------------------------------------------------------------------
(* The goroutines at their accesses, and the mutexes *)

\* The threads inside an access of a state.
Inside(state) ==
    {t \in DOMAIN Programs :
        threads[t].inside /\ Programs[t][threads[t].at].state = state}

\* sync.RWMutex: a writer excludes everyone, a reader excludes writers.
CanLock(state, kind) ==
    \A t \in Inside(state) :
        LET a == Programs[t][threads[t].at]
        IN  a.locked => (kind = "read" /\ a.kind = "read")

\* A call starts: the ticker fires, a request arrives.
StartCall(t) ==
    /\ threads[t].at = 0
    /\ threads' = [threads EXCEPT ![t] = [at |-> 1, inside |-> FALSE]]
    /\ UNCHANGED <<scalpVars, coins, market, cycles, published, lastRead>>
    /\ UNCHANGED notifyVars
    /\ UNCHANGED tradeVars
    /\ UNCHANGED indVars

\* The goroutine enters its next access, after taking the mutex if the code
\* takes one there.
BeginAccess(t) ==
    /\ threads[t].at > 0 /\ ~threads[t].inside
    /\ LET a == Programs[t][threads[t].at]
       IN  a.locked => CanLock(a.state, a.kind)
    /\ threads' = [threads EXCEPT ![t].inside = TRUE]
    /\ UNCHANGED <<scalpVars, coins, market, cycles, published, lastRead>>
    /\ UNCHANGED notifyVars
    /\ UNCHANGED tradeVars
    /\ UNCHANGED indVars

\* The goroutine leaves the access (and releases the mutex); it goes on to the
\* next access, or returns: at the end of the call, and MonitorAndExecute also
\* after its first read when the engine is disabled.
EndAccess(t) ==
    /\ threads[t].inside
    /\ \E next \in {IF threads[t].at = Len(Programs[t]) THEN 0 ELSE threads[t].at + 1}
                   \cup (IF t = "monitor" /\ threads[t].at = 1 THEN {0} ELSE {}) :
          threads' = [threads EXCEPT ![t] = [at |-> next, inside |-> FALSE]]
    /\ UNCHANGED <<scalpVars, coins, market, cycles, published, lastRead>>
    /\ UNCHANGED notifyVars
    /\ UNCHANGED tradeVars
    /\ UNCHANGED indVars

NextLocks ==
    \/ \E t \in DOMAIN Programs : StartCall(t)
    \/ \E t \in DOMAIN Programs : BeginAccess(t)
    \/ \E t \in DOMAIN Programs : EndAccess(t)

SpecLocks ==
    Init /\ [][NextLocks]_vars

---------------------------------------------------------------------------
(* The goroutines step by step: mutex operations and network calls *)

\* One step of a goroutine's code. ret: the function may return right after
\* the step (an error answer, a failed test); skip: the number of following
\* steps the code may jump over (continue, else branch).
Step(op, on, ret, skip) ==
    [op |-> op, on |-> on, ret |-> ret, skip |-> skip]

\* The mutexes of the process: the snapshot store's, uc.mu of the cooldown
\* table, the position store's, the local mu of a process() call, and those of
\* the token and the API-key stores.
Mutexes ==
    {"snapshot", "cooldown", "positions", "result", "tokens", "apikeys"}

\* Mutant of UnitSteps: the result mutex is taken before the fetches.
UnitSteps_FetchUnderLock ==
    <<Step("acquire", "sem", FALSE, 0),
      Step("Lock", "result", FALSE, 0),
      Step("net", "GetFundingRate", FALSE, 0),
      Step("net", "GetKlines 1m", FALSE, 0),
      Step("net", "GetKlines 5m", TRUE, 0),
      Step("net", "GetKlines 15m", FALSE, 0),
      Step("net", "GetKlines 1h", FALSE, 0),
      Step("Unlock", "result", FALSE, 0),
      Step("release", "sem", FALSE, 0)>>

\* The goroutine process() starts per symbol: the permit, the funding rate,
\* the klines of the core and of the intraday timeframes (the goroutine
\* returns when no core timeframe could be analysed), the append under mu.
UnitSteps ==
    <<Step("acquire", "sem", FALSE, 0),
      Step("net", "GetFundingRate", FALSE, 0),
      Step("net", "GetKlines 1m", FALSE, 0),
      Step("net", "GetKlines 5m", TRUE, 0),
      Step("net", "GetKlines 15m", FALSE, 0),
      Step("net", "GetKlines 1h", FALSE, 0),
      Step("Lock", "result", FALSE, 0),
      Step("Unlock", "result", FALSE, 0),
      Step("release", "sem", FALSE, 0)>>

\* process(): the two fetches, wg.Wait(), SaveCoins, then
\* sendNotificationsForTriggers for a list of one coin: IsEnabled,
\* GetAllTokens, the cooldown test, SendMulticast, the timestamp, the cleanup.
ProcessSteps ==
    <<Step("net", "GetActiveTradingSymbols", TRUE, 0),
      Step("net", "GetFutures24hrTicker", TRUE, 0),
      Step("wait", "wg", FALSE, 0),
      Step("Lock", "snapshot", FALSE, 0),
      Step("Unlock", "snapshot", FALSE, 0),
      Step("local", "IsEnabled", TRUE, 0),
      Step("RLock", "tokens", FALSE, 0),
      Step("RUnlock", "tokens", TRUE, 0),
      Step("RLock", "cooldown", FALSE, 0),
      Step("RUnlock", "cooldown", FALSE, 3),
      Step("net", "SendMulticast", FALSE, 2),
      Step("Lock", "cooldown", FALSE, 0),
      Step("Unlock", "cooldown", FALSE, 0),
      Step("Lock", "cooldown", FALSE, 0),
      Step("Unlock", "cooldown", FALSE, 0)>>

\* MonitorAndExecute with one position to close and one to open: GetCoins,
\* GetActiveEntries, UpdateEntry, GetActiveEntries (twice: the count, then
\* hasActivePosition), GetCoins, CreateEntry.
MonitorAndExecuteSteps ==
    <<Step("local", "Enabled", TRUE, 0),
      Step("RLock", "snapshot", FALSE, 0),
      Step("RUnlock", "snapshot", FALSE, 0),
      Step("RLock", "positions", FALSE, 0),
      Step("RUnlock", "positions", FALSE, 2),
      Step("Lock", "positions", FALSE, 0),
      Step("Unlock", "positions", FALSE, 0),
      Step("RLock", "positions", FALSE, 0),
      Step("RUnlock", "positions", TRUE, 0),
      Step("RLock", "snapshot", FALSE, 0),
      Step("RUnlock", "snapshot", FALSE, 0),
      Step("RLock", "positions", FALSE, 0),
      Step("RUnlock", "positions", TRUE, 0),
      Step("Lock", "positions", FALSE, 0),
      Step("Unlock", "positions", FALSE, 0)>>

\* PlaceShortWithStopLoss: GetTradingConfig, GetCredentials, SetLeverage,
\* GetAccountInfo, the entry order and its retry, the stop order,
\* UpdateOrAttachBinanceOrders.
PlaceShortWithStopLossSteps ==
    <<Step("RLock", "apikeys", FALSE, 0),
      Step("RUnlock", "apikeys", TRUE, 0),
      Step("RLock", "apikeys", FALSE, 0),
      Step("RUnlock", "apikeys", TRUE, 0),
      Step("net", "SetLeverage", TRUE, 0),
      Step("net", "GetAccountInfo", TRUE, 0),
      Step("net", "PlaceOrder SHORT", TRUE, 1),
      Step("net", "PlaceOrder BOTH", TRUE, 0),
      Step("net", "PlaceStopLossOrder", TRUE, 0),
      Step("Lock", "positions", FALSE, 0),
      Step("Unlock", "positions", FALSE, 0)>>

\* The goroutines followed: one scan cycle with the goroutines of two symbols,
\* the 5-second monitor, and a caller of the trading service.
Code ==
    [process  |-> ProcessSteps,
     unit1    |-> UnitSteps,
     unit2    |-> UnitSteps,
     monitor  |-> MonitorAndExecuteSteps,
     trade    |-> PlaceShortWithStopLossSteps]

\* The goroutines process() starts, after the tickers have been fetched.
Units ==
    {"unit1", "unit2"}

\* The position of a goroutine that has returned.
End(t) ==
    Len(Code[t]) + 1

\* The step a goroutine is at.
At(t) ==
    Code[t][threads[t].at]

\* The mutexes a goroutine holds: locked in a step it has passed and not
\* unlocked since.
RECURSIVE HeldUpTo(_, _)
HeldUpTo(t, n) ==
    IF n = 0
    THEN {}
    ELSE LET st == Code[t][n]
             h  == HeldUpTo(t, n - 1)
         IN  IF st.op \in {"Lock", "RLock"} THEN h \cup {[mutex |-> st.on, mode |-> st.op]}
             ELSE IF st.op \in {"Unlock", "RUnlock"}
             THEN {x \in h : x.mutex # st.on}
             ELSE h

Held(t) ==
    IF threads[t].at = 0 THEN {} ELSE HeldUpTo(t, threads[t].at - 1)

\* sync.RWMutex: Lock waits for every holder, RLock for a writer.
MutexFree(t, st) ==
    \A u \in DOMAIN Code \ {t} : \A x \in Held(u) :
        x.mutex = st.on => (st.op = "RLock" /\ x.mode = "RLock")

\* Where a goroutine can be after the step it is at.
After(t) ==
    LET st == At(t)
    IN  {threads[t].at + 1 + k : k \in {0, st.skip}}
        \cup (IF st.ret THEN {End(t)} ELSE {})

\* The goroutine is started: by Run, by the ticker, by a request; a unit by
\* process() once it holds the tickers.
Go(t) ==
    /\ threads[t].at = 0
    /\ t \in Units => threads["process"].at = 3
    /\ threads' = [threads EXCEPT ![t].at = 1]
    /\ UNCHANGED <<scalpVars, coins, market, cycles, published, lastRead>>
    /\ UNCHANGED notifyVars
    /\ UNCHANGED tradeVars
    /\ UNCHANGED indVars

\* The request of a network call is sent; the goroutine waits for the answer.
CallOut(t) ==
    /\ threads[t].at \in 1..Len(Code[t])
    /\ At(t).op = "net"
    /\ ~threads[t].inside
    /\ threads' = [threads EXCEPT ![t].inside = TRUE]
    /\ UNCHANGED <<scalpVars, coins, market, cycles, published, lastRead>>
    /\ UNCHANGED notifyVars
    /\ UNCHANGED tradeVars
    /\ UNCHANGED indVars

\* The call returns, with a result or an error.
CallBack(t) ==
    /\ threads[t].inside
    /\ \E next \in After(t) :
          threads' = [threads EXCEPT ![t] = [at |-> next, inside |-> FALSE]]
    /\ UNCHANGED <<scalpVars, coins, market, cycles, published, lastRead>>
    /\ UNCHANGED notifyVars
    /\ UNCHANGED tradeVars
    /\ UNCHANGED indVars

\* Any other step: a mutex operation blocks while the mutex is not free and
\* wg.Wait() until every unit has returned; the semaphore has more permits
\* than there are units here.
LocalStep(t) ==
    /\ threads[t].at \in 1..Len(Code[t])
    /\ At(t).op # "net"
    /\ At(t).op \in {"Lock", "RLock"} => MutexFree(t, At(t))
    /\ At(t).op = "wait" => \A u \in Units : threads[u].at = End(u)
    /\ \E next \in After(t) :
          threads' = [threads EXCEPT ![t] = [at |-> next, inside |-> FALSE]]
    /\ UNCHANGED <<scalpVars, coins, market, cycles, published, lastRead>>
    /\ UNCHANGED notifyVars
    /\ UNCHANGED tradeVars
    /\ UNCHANGED indVars

NextCalls ==
    \/ \E t \in DOMAIN Code : Go(t)
    \/ \E t \in DOMAIN Code : CallOut(t)
    \/ \E t \in DOMAIN Code : CallBack(t)
    \/ \E t \in DOMAIN Code : LocalStep(t)

InitCalls ==
    /\ InitScalp
    /\ coins = <<>>
    /\ market = [symbols |-> {}, tickers |-> {}, klines |-> {}, fcm |-> FALSE, tokens |-> 0]
    /\ cycles = <<>>
    /\ published = {}
    /\ lastRead = <<>>
    /\ notifiedCoins = [s \in {} |-> 0]
    /\ sent = {}
    /\ orders = <<>>
    /\ result = Nil
    /\ threads = [t \in DOMAIN Code |-> [at |-> 0, inside |-> FALSE]]
    /\ calc = Nil

SpecCalls ==
    InitCalls /\ [][NextCalls]_vars

---------------------------------------------------------------------------
(* infrastructure/indicators: EMA, RSI, ATR and Bollinger Bands *)
(* A slice is a function on 0..len-1; values are integers (prices in tenths) *)
(* and every division rounds down.                                          *)

\* Longest series followed.
MaxLen ==
    4

\* Largest period followed.
MaxPeriod ==
    3

\* The candles a series is built from: flat, rising, falling.
Candles ==
    {[High |-> 100, Low |-> 100, Close |-> 100],
     [High |-> 130, Low |-> 100, Close |-> 120],
     [High |-> 110, Low |-> 80, Close |-> 90]}

\* len(x)
LenOf(x) ==
    Cardinality(DOMAIN x)

\* make([]float64, n)
Make(n) ==
    [i \in 0..(n - 1) |-> 0]

\* What a call returns: the slice, the indexes the call assigned, and whether
\* it panicked on an index out of range instead of returning.
Ret(out, assigned) ==
    [out |-> out, assigned |-> assigned, panic |-> FALSE]

Panicked ==
    [out |-> Make(0), assigned |-> {}, panic |-> TRUE]

Abs(x) ==
    IF x < 0 THEN 0 - x ELSE x

Max3(a, b, c) ==
    LET m == IF b > a THEN b ELSE a
    IN  IF c > m THEN c ELSE m

\* math.Sqrt, rounded down.
Sqrt(n) ==
    CHOOSE r \in 0..n : r * r <= n /\ (r + 1) * (r + 1) > n

RECURSIVE SumOver(_, _)
SumOver(x, idx) ==
    IF idx = {} THEN 0
    ELSE LET i == CHOOSE j \in idx : TRUE
         IN  x[i] + SumOver(x, idx \ {i})

\* for i := period; i < len(data); i++ { ema[i] = data[i]*k + ema[i-1]*(1-k) }
\* with k = 2 / (period + 1).
RECURSIVE EmaLoop(_, _, _, _)
EmaLoop(ema, data, period, i) ==
    IF i >= LenOf(data)
    THEN ema
    ELSE EmaLoop([ema EXCEPT ![i] = (2 * data[i] + (period - 1) * ema[i - 1])
                                        \div (period + 1)],
                 data, period, i + 1)

\* Mutant of CalculateEMA: the length test allows one value too few.
CalculateEMA_LateGuard(data, period) ==
    LET n == LenOf(data)
    IN  IF n < period - 1
        THEN Ret(Make(n), {})
        ELSE IF ~((0..(period - 1)) \subseteq DOMAIN data)
        THEN Panicked
        ELSE LET first == [Make(n) EXCEPT ![period - 1] =
                              SumOver(data, 0..(period - 1)) \div period]
             IN  Ret(EmaLoop(first, data, period, period), (period - 1)..(n - 1))

\* CalculateEMA: zeros when len(data) < period; else the simple mean at
\* period-1 and the smoothing from period on.
CalculateEMA(data, period) ==
    LET n == LenOf(data)
    IN  IF n < period
        THEN Ret(Make(n), {})
        ELSE IF ~((0..(period - 1)) \subseteq DOMAIN data)
        THEN Panicked
        ELSE LET first == [Make(n) EXCEPT ![period - 1] =
                              SumOver(data, 0..(period - 1)) \div period]
             IN  Ret(EmaLoop(first, data, period, period), (period - 1)..(n - 1))

\* 100 when avgLoss is 0, else 100 - 100 / (1 + avgGain / avgLoss).
RsiOf(avgGain, avgLoss) ==
    IF avgLoss = 0 THEN 100 ELSE 100 - (100 * avgLoss) \div (avgLoss + avgGain)

\* The smoothing loop of CalculateRSI; the averages are kept times Scale.
RECURSIVE RsiLoop(_, _, _, _, _, _, _)
RsiLoop(rsi, gains, losses, period, avgGain, avgLoss, i) ==
    IF i >= LenOf(rsi)
    THEN rsi
    ELSE LET g == (avgGain * (period - 1) + 1000 * gains[i - 1]) \div period
             l == (avgLoss * (period - 1) + 1000 * losses[i - 1]) \div period
         IN  RsiLoop([rsi EXCEPT ![i] = RsiOf(g, l)], gains, losses, period, g, l, i + 1)

\* CalculateRSI: zeros when len(closes) < period+1; else the first value at
\* index period from the mean gain and loss, then the smoothing.
CalculateRSI(closes, period) ==
    LET n      == LenOf(closes)
        gains  == [i \in 0..(n - 2) |->
                      IF closes[i + 1] - closes[i] > 0 THEN closes[i + 1] - closes[i] ELSE 0]
        losses == [i \in 0..(n - 2) |->
                      IF closes[i + 1] - closes[i] > 0 THEN 0 ELSE closes[i] - closes[i + 1]]
    IN  IF n < period + 1
        THEN Ret(Make(n), {})
        ELSE IF LenOf(gains) < period
        THEN Ret(Make(n), {})
        ELSE IF ~((0..(period - 1)) \subseteq DOMAIN gains /\ period \in DOMAIN closes)
        THEN Panicked
        ELSE LET avgGain == (1000 * SumOver(gains, 0..(period - 1))) \div period
                 avgLoss == (1000 * SumOver(losses, 0..(period - 1))) \div period
                 first   == [Make(n) EXCEPT ![period] = RsiOf(avgGain, avgLoss)]
             IN  Ret(RsiLoop(first, gains, losses, period, avgGain, avgLoss,
                                   period + 1),
                           period..(n - 1))

\* for i := period; i < length; i++ { atr[i] = (atr[i-1]*(period-1) + trs[i]) / period }
RECURSIVE AtrLoop(_, _, _, _)
AtrLoop(atr, trs, period, i) ==
    IF i >= LenOf(atr)
    THEN atr
    ELSE AtrLoop([atr EXCEPT ![i] = (atr[i - 1] * (period - 1) + trs[i]) \div period],
                 trs, period, i + 1)

\* CalculateATR: zeros when length < period+1; else the true ranges, their
\* mean over the first period candles at period-1, and the smoothing.
CalculateATR(highs, lows, closes, period) ==
    LET n   == LenOf(closes)
        trs == [i \in 0..(n - 1) |->
                   IF i = 0 THEN highs[0] - lows[0]
                   ELSE Max3(highs[i] - lows[i],
                             Abs(highs[i] - closes[i - 1]),
                             Abs(lows[i] - closes[i - 1]))]
    IN  IF n < period + 1
        THEN Ret(Make(n), {})
        ELSE IF ~(0 \in DOMAIN highs /\ 0 \in DOMAIN lows
                  /\ (0..(n - 1)) \subseteq (DOMAIN highs \cap DOMAIN lows)
                  /\ (0..(period - 1)) \subseteq DOMAIN trs)
        THEN Panicked
        ELSE LET first == [Make(n) EXCEPT ![period - 1] =
                              SumOver(trs, 0..(period - 1)) \div period]
             IN  Ret(AtrLoop(first, trs, period, period), (period - 1)..(n - 1))

\* The bands at index i: the mean of closes[i-period+1..i] and the standard
\* deviation around it (0 when period is 1).
BandsAt(closes, period, multiplier, i) ==
    LET window == (i - period + 1)..i
        ma     == SumOver(closes, window) \div period
        sq     == [j \in window |-> (closes[j] - ma) * (closes[j] - ma)]
        stdDev == IF period > 1 THEN Sqrt(SumOver(sq, window) \div period) ELSE 0
    IN  [Upper |-> ma + multiplier * stdDev, Middle |-> ma,
         Lower |-> ma - multiplier * stdDev]

\* CalculateBollingerBands: zeros when length < period; else the three bands
\* from index period-1 on. The three slices are kept as one slice of records.
CalculateBollingerBands(closes, period, multiplier) ==
    LET n    == LenOf(closes)
        zero == [Upper |-> 0, Middle |-> 0, Lower |-> 0]
    IN  IF n < period
        THEN Ret([i \in 0..(n - 1) |-> zero], {})
        ELSE IF ~(\A i \in (period - 1)..(n - 1) : ((i - period + 1)..i) \subseteq DOMAIN closes)
        THEN Panicked
        ELSE Ret([i \in 0..(n - 1) |->
                           IF i >= period - 1
                           THEN BandsAt(closes, period, multiplier, i)
                           ELSE zero],
                       (period - 1)..(n - 1))

\* The indicators, and the length below which each returns zeros.
Indicators ==
    {"EMA", "RSI", "ATR", "BB"}

MinLength(fn, period) ==
    IF fn \in {"RSI", "ATR"} THEN period + 1 ELSE period

\* A call of one indicator on the series of calc.
Calculate(fn) ==
    LET highs  == [i \in DOMAIN calc.candles |-> calc.candles[i].High]
        lows   == [i \in DOMAIN calc.candles |-> calc.candles[i].Low]
        closes == [i \in DOMAIN calc.candles |-> calc.candles[i].Close]
    IN  /\ IsNil(calc[fn])
        /\ calc' = [calc EXCEPT ![fn] = Ptr(
                       IF fn = "EMA" THEN CalculateEMA(closes, calc.period)
                       ELSE IF fn = "RSI" THEN CalculateRSI(closes, calc.period)
                       ELSE IF fn = "ATR" THEN CalculateATR(highs, lows, closes, calc.period)
                       ELSE CalculateBollingerBands(closes, calc.period, 2))]
        /\ UNCHANGED <<scalpVars, coins, market, cycles, published, lastRead>>
        /\ UNCHANGED notifyVars
        /\ UNCHANGED tradeVars
        /\ UNCHANGED lockVars

NextInd ==
    \E fn \in Indicators : Calculate(fn)

\* Every series of at most MaxLen candles with every period 1..MaxPeriod.
InitInd ==
    /\ InitScalp
    /\ coins = <<>>
    /\ market = [symbols |-> {}, tickers |-> {}, klines |-> {}, fcm |-> FALSE, tokens |-> 0]
    /\ cycles = <<>>
    /\ published = {}
    /\ lastRead = <<>>
    /\ notifiedCoins = [s \in {} |-> 0]
    /\ sent = {}
    /\ orders = <<>>
    /\ result = Nil
    /\ threads = Idle
    /\ \E n \in 0..MaxLen : \E candles \in [0..(n - 1) -> Candles] :
       \E period \in 1..MaxPeriod :
          calc = [candles |-> candles, period |-> period,
                  EMA |-> Nil, RSI |-> Nil, ATR |-> Nil, BB |-> Nil]

SpecInd ==
    InitInd /\ [][NextInd]_vars

---------------------------------------------------------------------------
(* Claims about the auto-scalp engine *)

\* C1: after any sequence of monitor ticks, snapshot publications and settings
\* updates, the ACTIVE positions hold at most one position per symbol.
C1_OneActivePerSymbol ==
    \A i, j \in DOMAIN entries :
        /\ entries[i].Status = "ACTIVE"
        /\ entries[i].Symbol = entries[j].Symbol => i = j

\* C1 witness: a tick has just seen an entry candidate for a symbol that already
\* holds an ACTIVE position from an earlier tick, while a free slot was left.
C1_Witness ==
    /\ ticked
    /\ settings.Enabled
    /\ Cardinality(DOMAIN entries) < settings.MaxConcurrentTrades
    /\ \E id \in DOMAIN entries, k \in DOMAIN coins :
          /\ entries[id].Symbol = coins[k].Symbol
          /\ entries[id].HighestPrice < entries[id].EntryPrice
          /\ ShouldEnter(coins[k])

Closed(hist, id) ==
    CHOOSE h \in {hist[k] : k \in DOMAIN hist} : h.ID = id

\* C2: the exit reason of a position closed by a tick is decided in the order
\* stop-loss, max-hold, trailing-stop, emergency, the first match alone deciding:
\* a breached stop-loss gives SL_HIT whatever else holds, max-hold without a
\* breached stop-loss gives MAX_TIME even when the trailing condition holds too.
C2_ExitPriority ==
    [][\A id \in DOMAIN entries \ DOMAIN entries' :
          LET h     == Closed(history', id)
              p     == Deref(h.ExitPrice)
              sl    == p * PctScale >= h.StopLoss
              hold  == h.DurationSeconds >= settings.MaxPositionTime
              trail == /\ (h.EntryPrice - p) * PctScale
                             >= settings.MinProfitPercent * h.EntryPrice
                       /\ (p - h.HighestPrice) * PctScale
                             >= settings.TrailingStopPercent * h.EntryPrice
              emerg == (p - h.EntryPrice) * PctScale
                             > settings.StopLossPercent * h.EntryPrice
          IN  /\ sl => h.ExitReason = "SL_HIT"
              /\ (~sl /\ hold) => h.ExitReason = "MAX_TIME"
              /\ (~sl /\ ~hold /\ trail) => h.ExitReason = "TRAILING_STOP"
              /\ (~sl /\ ~hold /\ ~trail /\ emerg) => h.ExitReason = "EMERGENCY_EXIT"
              /\ sl \/ hold \/ trail \/ emerg
      ]_vars

\* C2 witness: a position closed with SL_HIT at a tick where its hold time had
\* also run out.
C2_Witness ==
    \E k \in DOMAIN history :
        /\ history[k].ExitReason = "SL_HIT"
        /\ history[k].DurationSeconds >= settings.MaxPositionTime

\* C2, second case reached: a position closed with MAX_TIME at a tick where the
\* trailing condition held as well.
C2_WitnessMaxTime ==
    \E k \in DOMAIN history :
        /\ history[k].ExitReason = "MAX_TIME"
        /\ ProfitAtLeast(history[k], Deref(history[k].ExitPrice),
                         settings.MinProfitPercent)
        /\ RetraceAtLeast(history[k], Deref(history[k].ExitPrice),
                          settings.TrailingStopPercent)

\* C3: once the unrealized profit of an ACTIVE position has reached the arming
\* threshold at some tick, a later evaluating tick at which the retrace from the
\* peak is at least TrailingStopPercent, with neither stop-loss nor max-hold
\* matching, closes it (TRAILING_STOP): no such position is ACTIVE after the tick.
C3_TrailingStopAfterArming ==
    (ticked /\ settings.Enabled) =>
        \A id \in DOMAIN entries :
            LET e == entries[id]
            IN  e.Symbol \in DOMAIN priceCache =>
                    LET p == priceCache[e.Symbol]
                    IN  ~ /\ (e.EntryPrice - e.HighestPrice) * PctScale
                                >= settings.MinProfitPercent * e.EntryPrice
                          /\ (p - e.HighestPrice) * PctScale
                                >= settings.TrailingStopPercent * e.EntryPrice
                          /\ p * PctScale < e.StopLoss
                          /\ now - e.EntryTime < settings.MaxPositionTime

\* C4: no position is still ACTIVE at the return of a monitor tick at which the
\* current price of its symbol has breached its stop-loss price or its hold
\* duration has reached MaxPositionTime.
C4_EveryTickEvaluatesExits ==
    ticked =>
        \A id \in DOMAIN entries :
            /\ now - entries[id].EntryTime < settings.MaxPositionTime
            /\ \A k \in DOMAIN coins :
                  coins[k].Symbol = entries[id].Symbol
                      => coins[k].Price * PctScale < entries[id].StopLoss

ConfirmationsHeld(f) ==
    {c \in {"wick", "band", "ema", "breakdown", "funding", "pump"} :
        \/ c = "wick" /\ f.RejectionWickRatio > 50
        \/ c = "band" /\ f.IsAboveUpperBand
        \/ c = "ema" /\ f.OverExtEma >= 300
        \/ c = "breakdown" /\ f.IsBreakdown
        \/ c = "funding" /\ f.FundingRate > 30
        \/ c = "pump" /\ f.PctChange24h >= 15}

\* C5: a position is opened by a tick only if the engine is enabled, fewer than
\* MaxConcurrentTrades positions are ACTIVE when it is opened, no ACTIVE position
\* exists for its symbol, and the snapshot holds a coin of that symbol at the
\* entry price with RSI >= 75 and at least 2 of the 6 reversal confirmations;
\* the tick leaves at most MaxConcurrentTrades positions ACTIVE.
C5_EntryGate ==
    [][\A id \in DOMAIN entries' \ DOMAIN entries :
          LET e == entries'[id]
          IN  /\ settings.Enabled
              /\ Cardinality({j \in DOMAIN entries' : j < id})
                    < settings.MaxConcurrentTrades
              /\ Cardinality(DOMAIN entries') <= settings.MaxConcurrentTrades
              /\ \A j \in DOMAIN entries' : entries'[j].Symbol = e.Symbol => j = id
              /\ e.Status = "ACTIVE"
              /\ \E k \in DOMAIN coins :
                    /\ coins[k].Symbol = e.Symbol
                    /\ coins[k].Price = e.EntryPrice
                    /\ ~IsNil(coins[k].Features)
                    /\ Deref(coins[k].Features).RSI >= 75
                    /\ Cardinality(ConfirmationsHeld(Deref(coins[k].Features))) >= 2
      ]_vars

\* C5 witness: a tick under MaxConcurrentTrades = 1 has opened a position for
\* the first of two entry candidates and none for the second.
C5_Witness ==
    /\ ticked
    /\ settings.Enabled
    /\ settings.MaxConcurrentTrades = 1
    /\ Len(coins) = 2
    /\ ShouldEnter(coins[1]) /\ ShouldEnter(coins[2])
    /\ \E id \in DOMAIN entries :
          /\ DOMAIN entries = {id}
          /\ entries[id].Symbol = coins[1].Symbol
          /\ entries[id].EntryTime = now
          /\ entries[id].HighestPrice = entries[id].EntryPrice
          /\ coins[2].Symbol # coins[1].Symbol

CoinsOf(cs) ==
    {cs[k] : k \in DOMAIN cs}

\* C7: the stored list and every list GetCoins returns is the initial empty
\* list or a list one cycle handed to SaveCoins, never a mix of two; and a
\* list is handed over only by a cycle all of whose units are done, and holds
\* exactly the coins that cycle collected.
C7_AtomicSnapshot ==
    /\ [](\A view \in {coins, lastRead} : view = <<>> \/ view \in published)
    /\ [][\A cs \in published' \ published :
             \E c \in DOMAIN cycles :
                /\ cycles[c].pc = "wait" /\ cycles'[c].pc = "returned"
                /\ \A s \in DOMAIN cycles[c].units : cycles[c].units[s].pc = "done"
                /\ Len(cs) = Len(cycles[c].computedCoins)
                /\ CoinsOf(cs) = CoinsOf(cycles[c].computedCoins)]_vars

\* C7 witness: a reader holds the one-coin list of a finished cycle while another
\* cycle, one unit still running, has collected a coin that is not in it.
C7_Witness ==
    /\ Len(lastRead) = 1
    /\ lastRead = coins
    /\ \E c \in DOMAIN cycles :
          /\ cycles[c].pc = "wait"
          /\ Len(cycles[c].computedCoins) = 1
          /\ \E s \in DOMAIN cycles[c].units : cycles[c].units[s].pc = "run"
          /\ cycles[c].computedCoins[1] \notin CoinsOf(lastRead)

\* C8: the stored snapshot and every list read from it are sorted
\* non-increasing by confluence score.
C8_SortedSnapshot ==
    \A view \in {coins, lastRead} :
        \A i, j \in DOMAIN view : i < j => view[i].Score >= view[j].Score

\* C8 witness: a reader holds a published list of two coins whose scores differ.
C8_Witness ==
    /\ Len(lastRead) = 2
    /\ lastRead \in published
    /\ lastRead[1].Score > lastRead[2].Score

\* C9: at any moment at most SemCapacity per-symbol units, over all the cycles
\* Run has started, hold a permit.
C9_GlobalLimiter ==
    Cardinality({cs \in {<<c, s>> : c \in DOMAIN cycles, s \in market.symbols} :
                    /\ cs[2] \in DOMAIN cycles[cs[1]].units
                    /\ cycles[cs[1]].units[cs[2]].pc = "run"}) <= SemCapacity

\* C10: in the list a cycle publishes, a symbol of the cycle is present iff
\* both its core timeframes were analysed: a symbol with fewer than 2 is
\* absent, and every symbol with 2 is present whatever happened to the others.
C10_DropFailedSymbols ==
    [][\A c \in DOMAIN cycles :
          (cycles[c].pc = "wait" /\ cycles'[c].pc = "returned") =>
              \A s \in DOMAIN cycles[c].units :
                  (\E k \in DOMAIN coins' : coins'[k].Symbol = s)
                      <=> cycles[c].units[s].analysed >= 2]_vars

\* C10 witness: a cycle over two symbols has published a list with one of them.
C10_Witness ==
    /\ Cardinality(market.symbols \cap market.tickers) = 2
    /\ Len(coins) = 1
    /\ coins \in published
    /\ \E c \in DOMAIN cycles : cycles[c].pc = "returned"

\* C11: a cycle whose fetch of the symbols or of the tickers fails returns
\* without publishing: the step leaves the stored snapshot and the set of
\* published lists unchanged, the cycle never does anything afterwards, and
\* Run can still start the next cycle.
C11_FetchFailureKeepsSnapshot ==
    /\ []((Len(cycles) < MaxCycles) => ENABLED StartCycle)
    /\ [][\A c \in DOMAIN cycles :
             /\ (cycles[c].pc \in {"symbols", "tickers"} /\ cycles'[c].pc = "failed")
                    => (coins' = coins /\ published' = published)
             /\ cycles[c].pc = "failed" => cycles'[c] = cycles[c]]_vars

\* C11 witness: the second cycle failed at a fetch after the first had published
\* a list that is still the stored snapshot.
C11_Witness ==
    /\ Len(cycles) = 2
    /\ cycles[1].pc = "returned"
    /\ cycles[2].pc = "failed"
    /\ coins # <<>>
    /\ coins \in published

\* C11 witness of the scheduler: a cycle started after the first one had failed.
C11_WitnessNextCycle ==
    /\ Len(cycles) = 2
    /\ cycles[1].pc = "failed"
    /\ cycles[2].pc = "wait"
    /\ published = {}

\* C12: a notification for a symbol is sent in a cycle exactly when the cycle's
\* list has the symbol as a TRIGGER and the symbol was not notified within the
\* last five minutes; so two notifications of one symbol are never less than
\* five minutes apart, however the cycles interleave.
C12_NotifyOnTriggerAfterCooldown ==
    /\ [](\A a, b \in sent :
             (a # b /\ a.symbol = b.symbol)
                 => (a.at - b.at >= CooldownDuration \/ b.at - a.at >= CooldownDuration))
    /\ [][\A c \in DOMAIN cycles :
             (/\ cycles[c].pc = "notify"
              /\ cycles[c].idx <= Len(cycles[c].computedCoins)
              /\ cycles'[c] # cycles[c])
                 => LET coin == cycles[c].computedCoins[cycles[c].idx]
                    IN  (cycles'[c].pc = "send")
                            <=> (/\ coin.Status = "TRIGGER"
                                 /\ ~InCooldown(notifiedCoins, coin.Symbol, cycles[c].at))]_vars

\* C13: when a scan cycle ends, the cooldown table holds no entry older than
\* twice the cooldown window and still holds every entry that is not older
\* than that; pruning an already pruned table at the same instant changes
\* nothing.
C13_PrunedAfterEveryCycle ==
    /\ [][\A c \in DOMAIN cycles :
             (/\ cycles[c].pc \notin {"returned", "failed"}
              /\ cycles'[c].pc \in {"returned", "failed"})
                 => LET t == IF cycles[c].pc = "notify" THEN cycles[c].at ELSE now
                    IN  /\ \A s \in DOMAIN notifiedCoins' :
                               t - notifiedCoins'[s] <= CooldownDuration * 2
                        /\ \A s \in DOMAIN notifiedCoins :
                               t - notifiedCoins[s] <= CooldownDuration * 2
                                   => /\ s \in DOMAIN notifiedCoins'
                                      /\ notifiedCoins'[s] = notifiedCoins[s]]_vars
    /\ [](\A t \in {now} \cup {cycles[c].at : c \in DOMAIN cycles} :
             Cleanup(Cleanup(notifiedCoins, t), t) = Cleanup(notifiedCoins, t))

---------------------------------------------------------------------------
(* Claims about the scoring *)

C14_WitnessSetup ==
    \E cs \in published : \E i \in DOMAIN cs :
        cs[i].Status = "SETUP" /\ cs[i].ConfluenceCount = 2

\* A WATCH with an aligned timeframe (score below 35) has been published.
C14_WitnessWatch ==
    \E cs \in published : \E i \in DOMAIN cs :
        cs[i].Status = "WATCH" /\ cs[i].ConfluenceCount >= 1

C15_WitnessBonus ==
    /\ Len(coins) = 1 /\ coins[1].ConfluenceCount = 2
    /\ coins[1].Score * 10 = 13 * 45 * ScoreScale

\* C16: for every features record the timeframe score is the sum of five
\* sub-scores, each never negative and never above its cap (overextension 30,
\* crowding 20, exhaustion 30, structure 20, momentum loss 15), and every score
\* in a published list lies between 0 and 100.
C16_CappedScores ==
    /\ \A a \in market.klines :
          /\ 0 <= sOver(a.f) /\ sOver(a.f) <= 30
          /\ 0 <= sCrowd(a.f) /\ sCrowd(a.f) <= 20
          /\ 0 <= sExhaust(a.f) /\ sExhaust(a.f) <= 30
          /\ 0 <= sStruct(a.f) /\ sStruct(a.f) <= 20
          /\ 0 <= sMomentum(a.f) /\ sMomentum(a.f) <= 15
          /\ CalculateScore(a.f)
                 = sOver(a.f) + sCrowd(a.f) + sExhaust(a.f) + sStruct(a.f) + sMomentum(a.f)
    /\ \A cs \in published \cup {coins} : \A i \in DOMAIN cs :
          0 <= cs[i].Score /\ cs[i].Score <= 100 * ScoreScale

\* The stored coin comes from features whose overextension and momentum points
\* add up to more than their caps, and its score was cut to 100.
C16_Witness ==
    /\ Len(coins) = 1 /\ coins[1].Score = 100 * ScoreScale
    /\ LET f == Deref(coins[1].Features)
       IN  /\ f.PctChange24h >= 50 /\ f.OverExtEma >= 800 /\ f.OverExtVwap >= 500
           /\ f.IsLosingMomentum /\ f.HasRsiDivergence /\ f.HasVolumeDivergence
           /\ f.RsiSlope < -3
           /\ CalculateScore(f) > 100

\* C17: when both core timeframes of a symbol have RSI 82, a price 9 % above
\* EMA50, a rejection wick of 0.6 and a close above the upper band, each
\* timeframe scores at least 85, and the published coin has confluence count
\* 2, the mean score raised by 1.3 and the status TRIGGER.
C17_StrongSignalScenario ==
    LET scenario(f) ==
            /\ f.RSI = 82 /\ f.OverExtEma = 900
            /\ f.RejectionWickRatio = 60 /\ f.IsAboveUpperBand
    IN  /\ \A a \in market.klines :
              scenario(a.f) => CalculateScore(a.f) >= 85
        /\ \A cs \in published \cup {coins} : \A i \in DOMAIN cs :
              LET f == Deref(cs[i].Features)
              IN  (scenario(f) /\ \A a \in market.klines : a.f # NoFeatures => a.f = f)
                      => /\ cs[i].ConfluenceCount = 2
                         /\ cs[i].Score * 10
                                = Min(13 * CalculateScore(f), 1000) * ScoreScale
                         /\ cs[i].Status = "TRIGGER"

---------------------------------------------------------------------------
(* Claims about the trading service *)

\* The positions of the entry requests in the log of the latest call.
EntryRequests ==
    {i \in DOMAIN orders : orders[i].type = "MARKET" /\ orders[i].side = "SELL"}

\* C18: a call of PlaceShortWithStopLoss sends the market entry at most twice;
\* the second attempt, with the other position side, is sent only when the
\* first was refused for a position-mode mismatch; after any other refusal of
\* the entry, or a refused retry, the error is returned and no stop order is
\* sent.
C18_EntryRetryOnlyOnModeMismatch ==
    /\ Cardinality(EntryRequests) <= 2
    /\ \A i \in EntryRequests : i <= Cardinality(EntryRequests)
    /\ Cardinality(EntryRequests) = 2
           => /\ orders[1].answer = "-4061"
              /\ orders[1].positionSide = "SHORT" /\ orders[2].positionSide = "BOTH"
    /\ \A i \in EntryRequests :
           (orders[i].answer # "ok" /\ (i = 2 \/ orders[i].answer # "-4061"))
               => /\ Len(orders) = i
                  /\ ~IsNil(result)
                  /\ Deref(result).err = orders[i].answer
                  /\ Deref(result).entryOrderID = 0 /\ Deref(result).slOrderID = 0

\* A call whose entry was refused for the position mode and whose retry was
\* refused as well.
C18_Witness ==
    /\ Len(orders) = 2
    /\ orders[1].answer = "-4061" /\ orders[2].answer = "error"
    /\ Deref(result).err = "error"

\* A call whose retry was accepted and followed by the stop order.
C18_WitnessRetryAccepted ==
    /\ Len(orders) = 3
    /\ orders[1].answer = "-4061" /\ orders[2].answer = "ok"
    /\ orders[3].type = "STOP_MARKET" /\ orders[3].positionSide = "BOTH"

\* C19: when the entry was accepted and the stop order is refused, the call
\* returns the error together with the entry order's ID and logs it as
\* critical, sends no further order (nothing closes or cancels the position)
\* and leaves the engine's positions as they are; a stop order is only ever
\* sent after an accepted entry.
C19_StopFailureLeavesPositionOpen ==
    /\ [](\A i \in DOMAIN orders :
             orders[i].type = "STOP_MARKET"
                 => /\ i > 1 /\ orders[i - 1].type = "MARKET"
                    /\ orders[i - 1].side = "SELL" /\ orders[i - 1].answer = "ok"
                    /\ orders[i].answer # "ok"
                           => /\ Len(orders) = i
                              /\ Deref(result).err = orders[i].answer
                              /\ Deref(result).entryOrderID = i - 1
                              /\ Deref(result).slOrderID = 0
                              /\ Deref(result).critical)
    /\ [](\A i \in DOMAIN orders :
             \/ orders[i].type = "MARKET" /\ orders[i].side = "SELL"
             \/ orders[i].type = "STOP_MARKET")
    /\ [][((orders' # orders \/ result' # result)
              /\ \E i \in DOMAIN orders' :
                    orders'[i].type = "STOP_MARKET" /\ orders'[i].answer # "ok")
             => (entries' = entries /\ history' = history)]_vars
    /\ [][(entries' # entries \/ history' # history \/ coins' # coins
              \/ settings' # settings)
             => (orders' = orders /\ result' = result)
                \/ (~IsNil(result') /\ Deref(result').err = "")]_vars

\* The engine holds an ACTIVE position of the symbol, and the latest call for
\* it had its retried entry accepted and its stop order refused.
C19_Witness ==
    /\ Len(orders) = 3
    /\ orders[2].answer = "ok" /\ orders[3].type = "STOP_MARKET"
    /\ orders[3].answer = "error"
    /\ Deref(result).critical /\ Deref(result).entryOrderID = 2
    /\ \E id \in DOMAIN entries :
          /\ entries[id].Symbol = Deref(result).symbol
          /\ entries[id].Status = "ACTIVE"
          /\ ~entries[id].IsRealTrade

\* A call whose two orders were accepted has attached them to the engine's
\* ACTIVE position of the symbol.
C19_WitnessAttached ==
    \E id \in DOMAIN entries :
        /\ entries[id].IsRealTrade /\ entries[id].EntryPrice = 10050
        /\ entries[id].BinanceSLOrderID = Ptr(2)

---------------------------------------------------------------------------
(* Claims about the locking *)

\* C20: the ranked snapshot, the cooldown map, the active-positions map and
\* the settings struct are each read and written only with their own lock
\* held, so a write to one of them by one thread is never concurrent with a
\* read or a write of it by another thread.
C20_LockDiscipline ==
    \A state \in {"snapshot", "cooldown", "positions", "settings"} :
        /\ \A t \in Inside(state) : Programs[t][threads[t].at].locked
        /\ \A t, u \in Inside(state) :
               (t # u) => /\ Programs[t][threads[t].at].kind = "read"
                          /\ Programs[u][threads[u].at].kind = "read"


---------------------------------------------------------------------------
(* Claims about locks and network calls *)

\* C21: no goroutine holds a mutex (snapshot, cooldown, positions, the result
\* mutex of a cycle, or any other) while one of its network calls (market
\* data, notification, order) is in flight.
C21_NoLockAcrossNetworkCall ==
    \A t \in DOMAIN Code : threads[t].inside => Held(t) = {}

\* A unit's kline fetch is in flight while the monitor holds the positions
\* mutex and the other unit holds the result mutex.
C21_Witness ==
    /\ threads["unit1"].inside
    /\ \E x \in Held("unit2") : x.mutex = "result"
    /\ \E x \in Held("monitor") : x.mutex = "positions"

\* An order is in flight while the cycle holds the cooldown mutex.
C21_WitnessOrder ==
    /\ threads["trade"].inside /\ At("trade").on = "PlaceStopLossOrder"
    /\ \E x \in Held("process") : x.mutex = "cooldown" /\ x.mode = "Lock"


---------------------------------------------------------------------------
(* Claims about the life of a position *)

\* C22: CLOSED is terminal. A closed position is in the history and not in
\* the active set; no later tick, order attachment or settings update changes
\* any field of a history record or removes it; its ID is never an active
\* entry's again, so a later entry of the same symbol has another ID.
C22_ClosedIsTerminal ==
    /\ [](/\ \A i \in 1..Len(history) :
                /\ history[i].Status = "CLOSED"
                /\ history[i].ID \notin DOMAIN entries
                /\ \A j \in 1..Len(history) : history[j].ID = history[i].ID => j = i
           /\ \A id \in DOMAIN entries :
                entries[id].Status = "ACTIVE" /\ entries[id].ID = id)
    /\ [][/\ Len(history') >= Len(history)
           /\ \A i \in 1..Len(history) : history'[i] = history[i]]_vars

\* A position of AAAUSDT was closed; a later one of the same symbol is active,
\* has been attached to its orders, and the settings have changed since.
C22_Witness ==
    /\ \E i \in 1..Len(history) : \E id \in DOMAIN entries :
          /\ history[i].Symbol = entries[id].Symbol
          /\ entries[id].IsRealTrade
          /\ ~history[i].IsRealTrade
          /\ entries[id].TrailingStopPct = history[i].TrailingStopPct
    /\ settings.MinProfitPercent # DefaultSettings.MinProfitPercent

\* A position that was attached to its orders has been closed.
C22_WitnessAttachedClosed ==
    \E i \in 1..Len(history) :
        history[i].IsRealTrade /\ history[i].EntryPrice = 10050


\* C23: one sign convention for all P&L: a position closed with SL_HIT or
\* EMERGENCY_EXIT records a P&L% of at most 0, one closed with TRAILING_STOP a
\* P&L% above 0 (the settings followed have positive percentages).
C23_OneSignConvention ==
    \A i \in 1..Len(history) :
        /\ history[i].ExitReason \in {"SL_HIT", "EMERGENCY_EXIT"}
              => Deref(history[i].ProfitLossPct) <= 0
        /\ history[i].ExitReason = "TRAILING_STOP"
              => Deref(history[i].ProfitLossPct) > 0


\* C24: the configured minimum entry score is enforced: a tick opens no
\* position for a coin whose score is below the MinEntryScore of the settings
\* in force at that tick.
C24_MinEntryScoreEnforced ==
    [][\A id \in DOMAIN entries' \ DOMAIN entries :
          entries'[id].EntryScore >= settings.MinEntryScore]_vars


---------------------------------------------------------------------------
(* Claims about the indicators *)

\* The zero sentinel of an indicator's output element.
IsSentinel(fn, v) ==
    IF fn = "BB" THEN v = [Upper |-> 0, Middle |-> 0, Lower |-> 0] ELSE v = 0

\* C25: each of EMA, RSI, ATR and Bollinger Bands, called with period >= 1,
\* has a minimum length (the period; the period plus one for RSI and ATR):
\* a shorter series returns a slice of the input's length holding only zeros,
\* a series of exactly that length is processed without an index out of range
\* and its last element is assigned by the computation.
C25_WarmUpBoundary ==
    calc # Nil =>
        \A fn \in Indicators :
            ~IsNil(calc[fn]) =>
                LET r == Deref(calc[fn])
                    n == LenOf(calc.candles)
                IN  /\ n < MinLength(fn, calc.period) =>
                          /\ ~r.panic
                          /\ DOMAIN r.out = 0..(n - 1)
                          /\ \A i \in DOMAIN r.out : IsSentinel(fn, r.out[i])
                    /\ n = MinLength(fn, calc.period) =>
                          /\ ~r.panic
                          /\ DOMAIN r.out = 0..(n - 1)
                          /\ (n - 1) \in r.assigned

\* The four indicators have been applied to a series of exactly period + 1
\* candles (the minimum of RSI and ATR) and, before, to one of period - 1.
C25_Witness ==
    /\ calc # Nil
    /\ LenOf(calc.candles) = calc.period + 1
    /\ calc.period = MaxPeriod
    /\ \A fn \in Indicators : ~IsNil(calc[fn]) /\ ~Deref(calc[fn]).panic
    /\ Deref(calc.RSI).out[calc.period] # 0
    /\ Deref(calc.ATR).out[calc.period] # 0

\* A series one candle short of the EMA period: every output is zero.
C25_WitnessShort ==
    /\ calc # Nil
    /\ LenOf(calc.candles) = calc.period - 1
    /\ calc.period > 1
    /\ \A fn \in Indicators : ~IsNil(calc[fn])

\* A series of exactly the period: EMA and the bands are computed at the last
\* index, RSI and ATR are all zeros.
C25_WitnessExact ==
    /\ calc # Nil
    /\ LenOf(calc.candles) = calc.period
    /\ \A fn \in Indicators : ~IsNil(calc[fn])
    /\ Deref(calc.EMA).out[calc.period - 1] # 0
    /\ Deref(calc.BB).out[calc.period - 1].Upper # Deref(calc.BB).out[calc.period - 1].Lower


\* C26: the highest-favourable price of an ACTIVE position starts at its entry
\* price, never rises from one step to the next, and after a tick that
\* evaluated the position it is the lower of its previous value and the price
\* evaluated, hence the minimum of the entry price and all evaluated prices and
\* never above the entry price.
C26_HighestPriceOnlyFalls ==
    [][/\ \A id \in DOMAIN entries' \ DOMAIN entries :
             entries'[id].HighestPrice = entries'[id].EntryPrice
       /\ \A id \in DOMAIN entries' \cap DOMAIN entries :
             LET e == entries[id]
                 f == entries'[id]
             IN  /\ f.HighestPrice <= e.HighestPrice
                 /\ (ticked' /\ settings.Enabled /\ e.Symbol \in DOMAIN priceCache') =>
                       /\ f.HighestPrice = Min(e.HighestPrice, priceCache'[e.Symbol])
                       /\ f.HighestPrice <= f.EntryPrice
      ]_vars


---------------------------------------------------------------------------
(* Claims about the termination of a scan cycle *)

\* Where the c-th process() call is: not started, or its position.
PcOf(c) ==
    IF c \in DOMAIN cycles THEN cycles[c].pc ELSE "none"

\* C27: the scan cycle Run starts finishes in every behaviour: it returns at
\* a failed fetch, or every unit takes a permit, gives it back and signals
\* completion, wg.Wait() returns and the cycle publishes its list; this with
\* more symbols than permits, of which never more than SemCapacity are taken.
C27_CycleFinishes ==
    /\ <>[](PcOf(1) = "failed" \/ (PcOf(1) = "returned" /\ published # {}))
    /\ [](PcOf(1) = "wait" =>
             /\ Cardinality(DOMAIN cycles[1].units) > SemCapacity
             /\ Cardinality(Running(1)) <= SemCapacity)

\* All permits are taken while a unit waits for one; and later the cycle has
\* published.
C27_Witness ==
    /\ Len(cycles) >= 1
    /\ cycles[1].pc = "wait"
    /\ Cardinality(DOMAIN cycles[1].units) > SemCapacity
    /\ Cardinality(Running(1)) = SemCapacity
    /\ \E s \in DOMAIN cycles[1].units : cycles[1].units[s].pc = "sem"

C27_WitnessPublished ==
    /\ Len(cycles) >= 1
    /\ cycles[1].pc = "returned"
    /\ published = {<<>>}

---------------------------------------------------------------------------
(* Claims about the order in which overlapping scan cycles publish *)

\* The cycles whose list has been given to SaveCoins.
HasPublished ==
    {c \in DOMAIN cycles : cycles[c].pc \in {"notify", "returned"}}

\* C28: the published snapshot never goes backwards: a process() call never
\* gives its list to SaveCoins after a call that Run started later has done so.
C28_SnapshotNeverGoesBack ==
    [][\A c \in DOMAIN cycles :
          (cycles[c].pc = "wait" /\ cycles'[c].pc \in {"notify", "returned"})
              => \A d \in HasPublished : d < c]_vars

---------------------------------------------------------------------------
(* The float64 arithmetic of openPosition and shouldExit *)

\* Bits of the mantissa of a floating-point value (53 in float64).
MantissaBits ==
    11

\* Monitor ticks that evaluate one position in one behaviour.
MaxTicks ==
    2

RECURSIVE Pow2(_)
Pow2(n) ==
    IF n = 0 THEN 1 ELSE 2 * Pow2(n - 1)

\* A floating-point value s * m * 2^e, m of exactly MantissaBits bits; zero.
FZero ==
    [s |-> 0, m |-> 0, e |-> 0]

Sgn(x) ==
    IF x > 0 THEN 1 ELSE IF x < 0 THEN 0 - 1 ELSE 0

\* Round to nearest, ties to even: the value nearest to sign * (n / d) * 2^e.
RECURSIVE FRound(_, _, _, _)
FRound(sign, n, d, e) ==
    IF n = 0 \/ sign = 0 THEN FZero
    ELSE IF n >= d * Pow2(MantissaBits) THEN FRound(sign, n, 2 * d, e + 1)
    ELSE IF n < d * Pow2(MantissaBits - 1) THEN FRound(sign, 2 * n, d, e - 1)
    ELSE LET q == n \div d
             r == n % d
             m == IF 2 * r > d \/ (2 * r = d /\ q % 2 = 1) THEN q + 1 ELSE q
         IN  IF m = Pow2(MantissaBits)
             THEN [s |-> sign, m |-> Pow2(MantissaBits - 1), e |-> e + 1]
             ELSE [s |-> sign, m |-> m, e |-> e]

\* strconv.ParseFloat and the JSON decoder: the value nearest to n / d.
FParse(n, d) ==
    FRound(Sgn(n), Abs(n), d, 0)

FNeg(a) ==
    [a EXCEPT !.s = 0 - a.s]

\* The exact sum a + b as an integer n times 2^e.
FExactSum(a, b) ==
    LET lo == Min(a.e, b.e)
    IN  [n |-> a.s * a.m * Pow2(a.e - lo) + b.s * b.m * Pow2(b.e - lo), e |-> lo]

\* a + b. An operand more than MantissaBits + 1 binary places below the other
\* lies under a quarter of its unit in the last place and leaves it unchanged.
FAdd(a, b) ==
    IF a.s = 0 THEN b
    ELSE IF b.s = 0 THEN a
    ELSE IF a.e - b.e > MantissaBits + 1 THEN a
    ELSE IF b.e - a.e > MantissaBits + 1 THEN b
    ELSE LET x == FExactSum(a, b) IN FRound(Sgn(x.n), Abs(x.n), 1, x.e)

FSub(a, b) ==
    FAdd(a, FNeg(b))

FMul(a, b) ==
    FRound(a.s * b.s, a.m * b.m, 1, a.e + b.e)

FDiv(a, b) ==
    FRound(a.s * b.s, a.m, b.m, a.e - b.e)

\* a < b
FLess(a, b) ==
    IF a.s # b.s THEN a.s < b.s
    ELSE IF a.s = 0 THEN FALSE
    ELSE IF a.e - b.e > MantissaBits THEN a.s < 0
    ELSE IF b.e - a.e > MantissaBits THEN a.s > 0
    ELSE FExactSum(a, FNeg(b)).n < 0

\* The settings as the decoder stores them: percents of two decimals.
FloatSettings(s) ==
    [StopLossPercent     |-> FParse(s.StopLossPercent, 100),
     MinProfitPercent    |-> FParse(s.MinProfitPercent, 100),
     TrailingStopPercent |-> FParse(s.TrailingStopPercent, 100),
     MaxPositionTime     |-> s.MaxPositionTime]

\* openPosition: entryPrice * (1 + StopLossPercent/100), and the entry built
\* from it. The price is the snapshot's, a decimal of two places.
FloatOpenPosition(price, s) ==
    LET entryPrice == FParse(price, 100)
        stopLoss   == FMul(entryPrice,
                           FAdd(FParse(1, 1), FDiv(s.StopLossPercent, FParse(100, 1))))
    IN  [EntryPrice |-> entryPrice, StopLoss |-> stopLoss, HighestPrice |-> entryPrice]

\* ((entry.EntryPrice - price) / entry.EntryPrice) * 100
FloatProfitPct(entry, price) ==
    FMul(FDiv(FSub(entry.EntryPrice, price), entry.EntryPrice), FParse(100, 1))

\* shouldExit in the arithmetic of the code.
FloatShouldExit(entry, currentPrice, elapsed, s) ==
    LET profitPct       == FloatProfitPct(entry, currentPrice)
        peakProfitPct   == FloatProfitPct(entry, entry.HighestPrice)
        retraceFromPeak == FSub(peakProfitPct, profitPct)
    IN  IF ~FLess(currentPrice, entry.StopLoss) THEN "SL_HIT"
        ELSE IF elapsed >= s.MaxPositionTime THEN "MAX_TIME"
        ELSE IF /\ ~FLess(profitPct, s.MinProfitPercent)
                /\ ~FLess(retraceFromPeak, s.TrailingStopPercent)
             THEN "TRAILING_STOP"
        ELSE IF FLess(profitPct, FNeg(s.StopLossPercent)) THEN "EMERGENCY_EXIT"
        ELSE ""

\* Snapshot prices at which a position is opened, in hundredths.
FloatEntryPrices ==
    {388, 390, 400, 675, 1000, 1350}

\* Stop-loss percents of the settings, in hundredths of a percent.
FloatStopLossPercents ==
    {40, 75}

\* Price moves between the entry and a tick, in hundredths.
FloatMoves ==
    (0 - 3)..11

\* checkEntries opens the position at the snapshot price.
FloatOpen ==
    /\ IsNil(calc.entry)
    /\ calc' = [calc EXCEPT
                   !.entry = Ptr(FloatOpenPosition(calc.price, FloatSettings(calc.settings)))]
    /\ UNCHANGED <<scalpVars, coins, market, cycles, published, lastRead>>
    /\ UNCHANGED notifyVars
    /\ UNCHANGED tradeVars
    /\ UNCHANGED lockVars

\* A tick of checkExits on the position: the price of the current snapshot,
\* the lowered HighestPrice, shouldExit, and closePosition or UpdateEntry.
FloatTick(move, elapsed) ==
    /\ ~IsNil(calc.entry)
    /\ calc.reason = ""
    /\ calc.ticks < MaxTicks
    /\ calc.price + move > 0
    /\ LET currentPrice == FParse(calc.price + move, 100)
           e0     == Deref(calc.entry)
           entry  == IF FLess(currentPrice, e0.HighestPrice)
                     THEN [e0 EXCEPT !.HighestPrice = currentPrice]
                     ELSE e0
           reason == FloatShouldExit(entry, currentPrice, calc.elapsed + elapsed,
                                     FloatSettings(calc.settings))
       IN  calc' = [calc EXCEPT !.entry = Ptr(entry),
                                !.reason = reason,
                                !.exit = calc.price + move,
                                !.stopped = ~FLess(currentPrice, entry.StopLoss),
                                !.elapsed = calc.elapsed + elapsed,
                                !.ticks = calc.ticks + 1]
    /\ UNCHANGED <<scalpVars, coins, market, cycles, published, lastRead>>
    /\ UNCHANGED notifyVars
    /\ UNCHANGED tradeVars
    /\ UNCHANGED lockVars

NextFloat ==
    \/ FloatOpen
    \/ \E move \in FloatMoves : \E elapsed \in {60, 1800} : FloatTick(move, elapsed)

\* Settings stored before the position opens and never changed afterwards; no
\* order attachment, so the entry price stays the one the position opened at.
InitFloat ==
    /\ InitScalp
    /\ coins = <<>>
    /\ market = [symbols |-> {}, tickers |-> {}, klines |-> {}, fcm |-> FALSE, tokens |-> 0]
    /\ cycles = <<>>
    /\ published = {}
    /\ lastRead = <<>>
    /\ notifiedCoins = [s \in {} |-> 0]
    /\ sent = {}
    /\ orders = <<>>
    /\ result = Nil
    /\ threads = Idle
    /\ \E price \in FloatEntryPrices : \E slp \in FloatStopLossPercents :
          calc = [settings |-> [DefaultSettings EXCEPT !.Enabled = TRUE,
                                                       !.StopLossPercent = slp],
                  price |-> price, entry |-> Nil, reason |-> "", exit |-> 0,
                  stopped |-> FALSE, elapsed |-> 0, ticks |-> 0]

SpecFloat ==
    InitFloat /\ [][NextFloat]_vars

\* C29: with the settings and the entry price unchanged since the position
\* was opened, no tick closes the position with reason EMERGENCY_EXIT.
C29_NoEmergencyExit ==
    calc.reason # "EMERGENCY_EXIT"

---------------------------------------------------------------------------
(* Claims about the price a position is evaluated against *)

\* The price of a symbol in a snapshot, or the empty set when it is absent.
PricesIn(cs, symbol) ==
    {cs[i].Price : i \in {j \in DOMAIN cs : cs[j].Symbol = symbol}}

\* C30: a tick that closes an ACTIVE position records as exit price the price
\* the position's symbol has in the snapshot current at that tick; a position
\* whose symbol is absent from that snapshot is not closed.
C30_ExitAtCurrentPrice ==
    [][\A i \in (Len(history) + 1)..Len(history') :
          Deref(history'[i].ExitPrice) \in PricesIn(coins, history'[i].Symbol)]_vars

====
